---------------------------- MODULE Spec2Model ----------------------------
(***************************************************************************)
(* A model of the ultratube selection-and-orchestration engine:            *)
(*   - MetadataService  (metadata_service.py): the per-URL metadata cache  *)
(*     and the audio-track resolution,                                     *)
(*   - DownloadService  (download_service.py): the format selector, the    *)
(*     download orchestration and the subtitle acquisition.                *)
(* Each component has its own specification (SpecCache, SpecTracks,        *)
(* SpecSelector, SpecDownload) over the shared variables; the variables of *)
(* the other components stay idle.                                         *)
(*                                                                         *)
(* Python strings whose characters the code inspects are sequences of      *)
(* one-character strings; Str(s) turns such a sequence into a TLA+ string. *)
(***************************************************************************)
EXTENDS Integers, Sequences, FiniteSets, TLC

VARIABLES
    \* ---- MetadataService (metadata_service.py:23-25) ----
    video_info_cache,   \* self._video_info_cache: url -> raw info (or None)
    cache_timestamps,   \* self._cache_timestamps: url -> time of the lookup that stored it
    cache_ttl,          \* self._cache_ttl
    now,                \* the clock read by time.time()
    extract_calls,      \* url -> number of _extract_video_info calls made so far
    lookup,             \* record of the last get_video_info call
    \* ---- get_audio_tracks ----
    formats,            \* info.formats of the video looked at
    audio_tracks,       \* the list get_audio_tracks returned (NotRun before the call)
    \* ---- download_video: format selector ----
    sel,                \* record of the last selector construction / resolution
    \* ---- download_audio / download_video / download_subtitles ----
    fs,                 \* the paths that exist on the filesystem
    dl,                 \* record of the last download call
    \* ---- title sanitization (models.py, download_service.py) ----
    san,                \* a title and what each sanitizing place made of it
    \* ---- get_available_subtitles ----
    raw_subtitles,      \* info.subtitles of the video looked at
    subtitles,          \* what get_available_subtitles returned (NotRun before the call)
    \* ---- FileService ----
    fsv,                \* record of the last FileService call
    \* ---- concurrent callers of get_video_info ----
    callers,            \* caller -> its position in get_video_info and its locals
    \* ---- ultratube_main: the session loop ----
    session             \* position in the loop and what the iteration did

cacheVars == <<video_info_cache, cache_timestamps, cache_ttl, now, extract_calls, lookup>>
trackVars == <<formats, audio_tracks>>
selVars   == <<sel>>
dlVars    == <<fs, dl>>
sanVars   == <<san>>
subVars   == <<raw_subtitles, subtitles>>
fileVars  == <<fsv>>
restVars  == <<callers, session>>
vars == <<video_info_cache, cache_timestamps, cache_ttl, now, extract_calls, lookup,
          formats, audio_tracks, sel, fs, dl, san, raw_subtitles, subtitles, fsv,
          callers, session>>

None   == [kind |-> "None"]   \* Python's None
NotRun == "NotRun"     \* no call has been made yet

-----------------------------------------------------------------------------
(* Generic helpers                                                          *)

RECURSIVE Str(_)
Str(s) == IF s = <<>> THEN "" ELSE Head(s) \o Str(Tail(s))

\* dict[key] = value
DictPut(d, k, v) == [x \in (DOMAIN d) \cup {k} |-> IF x = k THEN v ELSE d[x]]

\* dict.get(key, default)
DictGet(d, k, default) == IF k \in DOMAIN d THEN d[k] ELSE default

EmptyDict == [x \in {} |-> None]

-----------------------------------------------------------------------------
(* MetadataService: the metadata cache                                      *)

Urls == {"u1", "u2"}

MaxTime == 4          \* the clock runs from 0 to MaxTime
MaxTtl == 2           \* cache_ttl is drawn from 0..MaxTtl
MaxExtractDur == 2    \* an extraction lasts 0..MaxExtractDur ticks
MaxExtractions == 4   \* total number of extraction calls in one behaviour

TotalExtractions == extract_calls["u1"] + extract_calls["u2"]

\* What ydl.extract_info(url, download=False) does: return a raw info dict
\* (a fresh one per call, told apart by its serial number), return None, or
\* raise DownloadError.
ExtractOutcomes == {"info", "none", "DownloadError"}

RawInfo(url, serial) == [kind |-> "info", url |-> url, serial |-> serial]

\* _extract_video_info: DownloadError is re-raised as ValueError.
ExtractVideoInfo(url, outcome, serial) ==
    CASE outcome = "info"          -> [raised |-> FALSE, value |-> RawInfo(url, serial)]
      [] outcome = "none"          -> [raised |-> FALSE, value |-> None]
      [] outcome = "DownloadError" -> [raised |-> TRUE,  value |-> [kind |-> "ValueError"]]

\* _create_video_info: raw_info.get(...) on None raises AttributeError.
CreateVideoInfo(raw_info) ==
    IF raw_info = None
    THEN [kind |-> "AttributeError"]
    ELSE [kind |-> "VideoInfo", info |-> raw_info]

CacheHitMutantLe(cache, stamps, ttl, url, current_time) ==
    /\ url \in DOMAIN cache
    /\ current_time - DictGet(stamps, url, 0) <= ttl

CacheHitMutantNever(cache, stamps, ttl, url, current_time) == FALSE

\* get_video_info, lines 39-41: the entry exists and is younger than the ttl.
CacheHit(cache, stamps, ttl, url, current_time) ==
    /\ url \in DOMAIN cache
    /\ current_time - DictGet(stamps, url, 0) < ttl

StoredInfoMutantOnFailure(cache, url, ex) ==
    DictPut(cache, url, IF ex.raised THEN None ELSE ex.value)

\* get_video_info, lines 46-49: the assignment is reached only when
\* _extract_video_info returned.
StoredInfo(cache, url, ex) ==
    IF ex.raised THEN cache ELSE DictPut(cache, url, ex.value)

StoredTimestampMutantLater(stamps, url, ex, current_time) ==
    IF ex.raised THEN stamps ELSE DictPut(stamps, url, current_time + 1)

StoredTimestampMutantAllUrls(stamps, url, ex, current_time) ==
    IF ex.raised THEN stamps
    ELSE [x \in (DOMAIN stamps) \cup {url} |-> current_time]

\* get_video_info, lines 46-50.
StoredTimestamp(stamps, url, ex, current_time) ==
    IF ex.raised THEN stamps ELSE DictPut(stamps, url, current_time)

\* get_video_info, lines 43, 46, 52: what the caller gets.
LookupResult(ex) ==
    IF ex.raised THEN ex.value ELSE CreateVideoInfo(ex.value)

\* One whole get_video_info(url) call. The clock is read once, at the start;
\* the extraction, when made, takes dur ticks.
GetVideoInfo(url, outcome, dur) ==
    LET current_time == now IN
    IF CacheHit(video_info_cache, cache_timestamps, cache_ttl, url, current_time)
    THEN /\ lookup' = [op |-> "get_video_info", url |-> url,
                       current_time |-> current_time,
                       pre_cache |-> video_info_cache,
                       pre_stamps |-> cache_timestamps,
                       extractions |-> 0,
                       extracted |-> [raised |-> FALSE, value |-> None],
                       returned_at |-> now,
                       result |-> CreateVideoInfo(video_info_cache[url])]
         /\ UNCHANGED <<video_info_cache, cache_timestamps, cache_ttl, now, extract_calls>>
    ELSE /\ TotalExtractions < MaxExtractions
         /\ now + dur <= MaxTime
         /\ LET ex == ExtractVideoInfo(url, outcome, TotalExtractions + 1) IN
            /\ video_info_cache' = StoredInfo(video_info_cache, url, ex)
            /\ cache_timestamps' = StoredTimestamp(cache_timestamps, url, ex, current_time)
            /\ extract_calls' = [extract_calls EXCEPT ![url] = @ + 1]
            /\ now' = now + dur
            /\ lookup' = [op |-> "get_video_info", url |-> url,
                          current_time |-> current_time,
                          pre_cache |-> video_info_cache,
                          pre_stamps |-> cache_timestamps,
                          extractions |-> 1, extracted |-> ex,
                          returned_at |-> now + dur,
                          result |-> LookupResult(ex)]
            /\ UNCHANGED cache_ttl

\* Time passes between calls.
Tick ==
    /\ now < MaxTime
    /\ now' = now + 1
    /\ UNCHANGED <<video_info_cache, cache_timestamps, cache_ttl, extract_calls, lookup>>

InitCache ==
    /\ video_info_cache = EmptyDict
    /\ cache_timestamps = EmptyDict
    /\ cache_ttl \in 0..MaxTtl
    /\ now = 0
    /\ extract_calls = [u \in Urls |-> 0]
    /\ lookup = [op |-> NotRun]

IdleCache ==
    /\ video_info_cache = EmptyDict
    /\ cache_timestamps = EmptyDict
    /\ cache_ttl = 0
    /\ now = 0
    /\ extract_calls = [u \in Urls |-> 0]
    /\ lookup = [op |-> NotRun]

IdleTracks == formats = <<>> /\ audio_tracks = [kind |-> NotRun]
IdleSel == sel = [op |-> NotRun]
IdleDl == fs = {} /\ dl = [op |-> NotRun]
IdleSan == san = [op |-> NotRun]
IdleSubs == raw_subtitles = <<>> /\ subtitles = [kind |-> NotRun]
IdleFile == fsv = [op |-> NotRun]
IdleCallers == callers = <<>>
IdleSession == session = [pc |-> NotRun]
IdleRest == IdleCallers /\ IdleSession

LookupStep ==
    \E url \in Urls, outcome \in ExtractOutcomes, dur \in 0..MaxExtractDur :
        GetVideoInfo(url, outcome, dur)

NextCache ==
    \/ LookupStep /\ UNCHANGED <<trackVars, selVars, dlVars, sanVars, subVars, fileVars, restVars>>
    \/ Tick /\ UNCHANGED <<trackVars, selVars, dlVars, sanVars, subVars, fileVars, restVars>>

InitCacheSpec ==
    InitCache /\ IdleTracks /\ IdleSel /\ IdleDl /\ IdleSan /\ IdleSubs /\ IdleFile /\ IdleRest

SpecCache == InitCacheSpec /\ [][NextCache]_vars

-----------------------------------------------------------------------------
(* C1: a get_video_info lookup makes no extraction and answers from the     *)
(* stored record iff an entry for that exact URL exists whose age           *)
(* (now - fetch_timestamp) is strictly below the ttl; otherwise it makes    *)
(* exactly one extraction and, when the extraction returns, replaces the    *)
(* entry and answers from the new record, never from the expired one.       *)
LookupFresh ==
    /\ lookup.url \in DOMAIN lookup.pre_cache
    /\ lookup.current_time - lookup.pre_stamps[lookup.url] < cache_ttl

C1_LookupHitsIffFresh ==
    lookup.op = "get_video_info" =>
        /\ LookupFresh =>
              /\ lookup.extractions = 0
              /\ lookup.result = CreateVideoInfo(lookup.pre_cache[lookup.url])
              /\ video_info_cache = lookup.pre_cache
              /\ cache_timestamps = lookup.pre_stamps
        /\ ~LookupFresh =>
              /\ lookup.extractions = 1
              /\ ~lookup.extracted.raised =>
                    /\ video_info_cache[lookup.url] = lookup.extracted.value
                    /\ cache_timestamps[lookup.url] = lookup.current_time
                    /\ lookup.result = CreateVideoInfo(lookup.extracted.value)
                    /\ lookup.url \in DOMAIN lookup.pre_cache =>
                          lookup.extracted.value # lookup.pre_cache[lookup.url]
                              \/ lookup.extracted.value = None

\* An entry whose age is exactly the ttl was looked up and refreshed.
C1_Witness ==
    /\ lookup.op = "get_video_info"
    /\ cache_ttl > 0
    /\ lookup.url \in DOMAIN lookup.pre_cache
    /\ lookup.current_time - lookup.pre_stamps[lookup.url] = cache_ttl
    /\ lookup.extractions = 1
    /\ lookup.result.kind = "VideoInfo"
    /\ lookup.result.info.serial > lookup.pre_cache[lookup.url].serial

(* C2: when the extraction made by get_video_info fails, the caller gets an *)
(* error and both cache maps are exactly as they were before the lookup.    *)
C2_FailureLeavesCache ==
    (lookup.op = "get_video_info" /\ lookup.extractions = 1 /\ lookup.extracted.raised) =>
        /\ lookup.result = [kind |-> "ValueError"]
        /\ video_info_cache = lookup.pre_cache
        /\ cache_timestamps = lookup.pre_stamps

\* A failed refresh of an expired entry while another URL has an entry.
C2_Witness ==
    /\ lookup.op = "get_video_info"
    /\ lookup.extractions = 1
    /\ lookup.extracted.raised
    /\ lookup.url \in DOMAIN lookup.pre_cache
    /\ DOMAIN lookup.pre_cache = Urls

(* C23: in every reachable state each cache entry holds a complete         *)
(* metadata record produced by a successful extraction: an extraction that  *)
(* returns no metadata without raising neither creates nor overwrites an    *)
(* entry, and a later lookup within the ttl never answers from a null       *)
(* record.                                                                  *)
C23_NoNullEntry ==
    /\ \A url \in DOMAIN video_info_cache : video_info_cache[url] # None
    /\ (lookup.op = "get_video_info" /\ lookup.extractions = 0) =>
          lookup.result.kind = "VideoInfo"

(* C24: the cache is keyed by the exact URL string: a lookup for u reads    *)
(* and writes only the entry of u and leaves the record and the timestamp   *)
(* of every other URL as they were; a valid entry of u never answers a      *)
(* lookup for another string, which makes its own extraction.               *)
C24_KeyedByExactUrl ==
    lookup.op = "get_video_info" =>
        /\ \A other \in Urls \ {lookup.url} :
              /\ other \in DOMAIN video_info_cache <=> other \in DOMAIN lookup.pre_cache
              /\ other \in DOMAIN cache_timestamps <=> other \in DOMAIN lookup.pre_stamps
              /\ other \in DOMAIN lookup.pre_cache =>
                    /\ video_info_cache[other] = lookup.pre_cache[other]
                    /\ cache_timestamps[other] = lookup.pre_stamps[other]
        /\ lookup.url \notin DOMAIN lookup.pre_cache => lookup.extractions = 1
        /\ lookup.result.kind = "VideoInfo" => lookup.result.info.url = lookup.url

\* u2 is looked up while u1 has an entry younger than the ttl: u2 is
\* extracted and the entry of u1 stays.
C24_Witness ==
    /\ lookup.op = "get_video_info"
    /\ lookup.url = "u2"
    /\ DOMAIN lookup.pre_cache = {"u1"}
    /\ lookup.pre_cache["u1"] # None
    /\ lookup.current_time - lookup.pre_stamps["u1"] < cache_ttl
    /\ lookup.extractions = 1
    /\ lookup.result.kind = "VideoInfo"
    /\ lookup.current_time > lookup.pre_stamps["u1"]
    /\ cache_timestamps["u1"] = lookup.pre_stamps["u1"]

(* C28: after a lookup that extracted, the timestamp stored for the URL    *)
(* is the clock value read at the start of the lookup, before the           *)
(* extraction, not the time the extraction finished; an entry stored after  *)
(* an extraction that lasted at least the ttl is expired from the moment    *)
(* the lookup returns.                                                      *)
C28_TimestampIsLookupStart ==
    (lookup.op = "get_video_info" /\ lookup.extractions = 1 /\ ~lookup.extracted.raised) =>
        /\ cache_timestamps[lookup.url] = lookup.current_time
        /\ lookup.returned_at >= lookup.current_time
        /\ now >= lookup.returned_at
        /\ lookup.returned_at - lookup.current_time >= cache_ttl =>
              ~CacheHit(video_info_cache, cache_timestamps, cache_ttl, lookup.url, now)

\* An extraction that took as long as a positive ttl has just returned: the
\* entry carries the earlier clock value and is no longer valid.
C28_Witness ==
    /\ lookup.op = "get_video_info"
    /\ lookup.extractions = 1
    /\ lookup.result.kind = "VideoInfo"
    /\ cache_ttl > 0
    /\ lookup.returned_at - lookup.current_time = cache_ttl
    /\ now = lookup.returned_at
    /\ cache_timestamps[lookup.url] < now
    /\ lookup.url \in DOMAIN video_info_cache

-----------------------------------------------------------------------------
(* Python string operations on sequences of characters                      *)

UpperChars == <<"A", "B", "C", "D", "E", "F", "G", "H", "I", "J", "K", "L", "M",
                "N", "O", "P", "Q", "R", "S", "T", "U", "V", "W", "X", "Y", "Z">>
LowerChars == <<"a", "b", "c", "d", "e", "f", "g", "h", "i", "j", "k", "l", "m",
                "n", "o", "p", "q", "r", "s", "t", "u", "v", "w", "x", "y", "z">>
DigitChars == <<"0", "1", "2", "3", "4", "5", "6", "7", "8", "9">>

InSeq(c, s) == \E i \in 1..Len(s) : s[i] = c

IndexIn(c, s) == CHOOSE i \in 1..Len(s) : s[i] = c

LowerChar(c) == IF InSeq(c, UpperChars) THEN LowerChars[IndexIn(c, UpperChars)] ELSE c

\* str.lower()
Lower(s) == [i \in 1..Len(s) |-> LowerChar(s[i])]

\* The positions at which sub occurs in s.
Occurrences(s, sub) ==
    {i \in 1..(Len(s) - Len(sub) + 1) : SubSeq(s, i, i + Len(sub) - 1) = sub}

\* sub in s
Contains(s, sub) == Occurrences(s, sub) # {}

\* s.split(sep)[0]
SplitFirst(s, sep) ==
    IF Contains(s, sep)
    THEN SubSeq(s, 1, (CHOOSE i \in Occurrences(s, sep) :
                          \A j \in Occurrences(s, sep) : i <= j) - 1)
    ELSE s

-----------------------------------------------------------------------------
(* MetadataService.get_audio_tracks                                         *)

Absent == "<None>"    \* dict.get of a missing key, for the fields compared whole

S_sep     == <<" ", "-", " ">>
S_dubbed  == <<"d", "u", "b", "b", "e", "d">>
S_default == <<"d", "e", "f", "a", "u", "l", "t">>

\* A raw format of info.formats. format_note and language are character
\* sequences (<<>>: missing or empty, which the code treats alike); the other
\* fields are compared whole. The container goes with the audio codec.
Format(id, vcodec, acodec, resolution, note, language, abr) ==
    [format_id |-> id, vcodec |-> vcodec, acodec |-> acodec,
     resolution |-> resolution, format_note |-> note, language |-> language,
     ext |-> IF acodec = "mp4a" THEN "m4a" ELSE "webm", protocol |-> "https", abr |-> abr]

\* The formats a video may offer.
FormatPool == {
    Format("a1", "none", "opus", "audio only", <<"E", "n", " ", "-", " ", "a">>, <<"e", "n">>, "128"),
    Format("a2", "none", "opus", "audio only", <<"e", "n", " ", "-", " ", "d", "u", "b", "b", "e", "d">>, <<"e", "n">>, "160"),
    Format("a3", "none", "mp4a", "audio only", <<>>, <<"f", "r">>, "64"),
    Format("a4", "none", Absent, Absent, <<" ", "-", " ", "l", "o", "w">>, <<"F", "R">>, Absent),
    Format("a5", "none", "opus", "audio only", <<>>, <<>>, "48"),
    Format("a6", "none", "opus", Absent, <<"D", "e", ",", " ", "l", "o", "w">>, <<>>, "70"),
    Format("v1", "avc1", "none", "1280x720", <<"7", "2", "0", "p">>, <<>>, Absent),
    Format("v2", "avc1", "mp4a", "640x360", <<"E", "n", " ", "-", " ", "a">>, <<"e", "n">>, "96"),
    Format("s1", "none", "none", "audio only", <<"E", "s">>, <<>>, Absent) }

MaxFormats == 3       \* a video offers at most MaxFormats formats

RECURSIVE SeqsUpTo(_, _)
SeqsUpTo(S, n) ==
    IF n = 0 THEN {<<>>}
    ELSE LET shorter == SeqsUpTo(S, n - 1) IN
         shorter \cup {Append(s, x) : s \in {t \in shorter : Len(t) = n - 1}, x \in S}

IsAudioOnlyMutantCodecsOnly(f) == f.vcodec = "none" /\ f.acodec # "none"

\* Lines 70-72: Python's "a and b or c".
IsAudioOnly(f) ==
    \/ (f.vcodec = "none" /\ f.acodec # "none")
    \/ f.resolution = "audio only"

\* Lines 77-87.
LanguageName(f) ==
    LET format_note == f.format_note
        from_note == IF format_note # <<>>
                     THEN (IF Contains(format_note, S_sep)
                           THEN SplitFirst(format_note, S_sep)
                           ELSE format_note)
                     ELSE <<>>
    IN  IF from_note # <<>> THEN from_note
        ELSE IF f.language # <<>> THEN f.language
        ELSE S_default

\* Lines 99-107.
Description(f, language_name) ==
    Str(language_name) \o " (" \o f.ext
        \o (IF f.protocol # "" /\ f.protocol \notin {"http", "https"}
            THEN ", " \o f.protocol ELSE "")
        \o (IF f.abr # Absent THEN ", " \o f.abr \o "k" ELSE "")
        \o ")"
        \o (IF Contains(Lower(f.format_note), S_dubbed) THEN " [dubbed]" ELSE "")

\* Lines 110-116.
MakeAudioTrack(f, language_name) ==
    [language |-> language_name, format_id |-> f.format_id,
     description |-> Description(f, language_name),
     codec |-> f.acodec, bitrate |-> f.abr]

ProcessedKeyMutantCaseSensitive(language_name) == language_name

\* Lines 90 and 118: the key kept in processed_languages.
ProcessedKey(language_name) == Lower(language_name)

\* Lines 68-118: the loop over info.formats, from position i on.
RECURSIVE AudioTrackLoop(_, _, _, _)
AudioTrackLoop(fmts, i, tracks, processed_languages) ==
    IF i > Len(fmts) THEN tracks
    ELSE LET f == fmts[i]
             language_name == LanguageName(f)
         IN  IF ~IsAudioOnly(f)
             THEN AudioTrackLoop(fmts, i + 1, tracks, processed_languages)
             ELSE IF ProcessedKey(language_name) \in processed_languages
             THEN AudioTrackLoop(fmts, i + 1, tracks, processed_languages)
             ELSE AudioTrackLoop(fmts, i + 1,
                                 Append(tracks, MakeAudioTrack(f, language_name)),
                                 processed_languages \cup {ProcessedKey(language_name)})

\* Lines 64-120: get_audio_tracks(url). The lookup goes through the cache;
\* an error of get_video_info propagates.
GetAudioTracks(url, outcome) ==
    /\ GetVideoInfo(url, outcome, 0)
    /\ audio_tracks' = IF lookup'.result.kind = "VideoInfo"
                       THEN [kind |-> "tracks",
                             tracks |-> AudioTrackLoop(formats, 1, <<>>, {})]
                       ELSE [kind |-> lookup'.result.kind]
    /\ UNCHANGED formats

InitTracks ==
    /\ formats \in SeqsUpTo(FormatPool, MaxFormats)
    /\ audio_tracks = [kind |-> NotRun]

AudioTracksStep ==
    \E outcome \in ExtractOutcomes : GetAudioTracks("u1", outcome)

NextTracks ==
    \/ AudioTracksStep /\ UNCHANGED <<selVars, dlVars, sanVars, subVars, fileVars, restVars>>

\* The cache starts empty, with the longest ttl.
InitTracksSpec ==
    /\ InitCache /\ cache_ttl = MaxTtl /\ InitTracks
    /\ IdleSel /\ IdleDl /\ IdleSan /\ IdleSubs /\ IdleFile /\ IdleRest

SpecTracks == InitTracksSpec /\ [][NextTracks]_vars

(* C3: the list get_audio_tracks returns holds no two tracks whose language *)
(* labels are equal ignoring case; the track kept for a label is built from *)
(* the first candidate format carrying it; and the tracks are in the order  *)
(* of their source formats.                                                 *)
Candidates == {i \in 1..Len(formats) : IsAudioOnly(formats[i])}

LabelOf(i) == Lower(LanguageName(formats[i]))

FirstOfLabel == {i \in Candidates : \A j \in Candidates : j < i => LabelOf(j) # LabelOf(i)}

\* The k-th smallest element of a set of numbers.
Kth(S, k) == CHOOSE i \in S : Cardinality({j \in S : j < i}) = k - 1

C3_FirstSeenWins ==
    audio_tracks.kind = "tracks" =>
        LET tracks == audio_tracks.tracks IN
        /\ \A a, b \in 1..Len(tracks) :
              a < b => Lower(tracks[a].language) # Lower(tracks[b].language)
        /\ Len(tracks) = Cardinality(FirstOfLabel)
        /\ \A k \in 1..Len(tracks) :
              LET src == formats[Kth(FirstOfLabel, k)] IN
              /\ tracks[k].format_id = src.format_id
              /\ tracks[k].language = LanguageName(src)
              /\ tracks[k].codec = src.acodec
              /\ tracks[k].bitrate = src.abr

\* Two candidates with labels equal ignoring case but not equal, and a third
\* label after them: the second is dropped, the order is kept.
C3_Witness ==
    /\ audio_tracks.kind = "tracks"
    /\ Len(audio_tracks.tracks) = 2
    /\ Cardinality(Candidates) = 3
    /\ \E i, j \in Candidates :
          /\ i < j
          /\ LabelOf(i) = LabelOf(j)
          /\ LanguageName(formats[i]) # LanguageName(formats[j])
          /\ \E k \in Candidates : j < k

\* The formats of the video that a returned track may have been built from.
SourcesOf(track) == {i \in 1..Len(formats) : formats[i].format_id = track.format_id}

\* Some returned track carries the label of format i, ignoring case.
Represented(i) ==
    \E k \in 1..Len(audio_tracks.tracks) :
        Lower(audio_tracks.tracks[k].language) = Lower(LanguageName(formats[i]))

(* C18 (as claimed): get_audio_tracks treats a raw format as an audio-track *)
(* candidate iff it reports no video codec (vcodec = 'none') and a non-null *)
(* audio codec; no other field, such as the resolution or the container     *)
(* extension, makes a format a candidate or excludes it.                    *)
ClaimedCandidate(f) == f.vcodec = "none" /\ f.acodec \notin {"none", Absent}

C18_CandidateIffCodecs ==
    audio_tracks.kind = "tracks" =>
        /\ \A k \in 1..Len(audio_tracks.tracks) :
              \A i \in SourcesOf(audio_tracks.tracks[k]) : ClaimedCandidate(formats[i])
        /\ \A i \in 1..Len(formats) : ClaimedCandidate(formats[i]) => Represented(i)

(* C18 (amended): a raw format is a candidate iff its vcodec is 'none' and  *)
(* its acodec is anything but 'none' (a missing acodec included), or its    *)
(* resolution is 'audio only' whatever its codecs; the container extension  *)
(* and the other fields neither make a format a candidate nor exclude it.   *)
CodeCandidate(f) ==
    \/ f.vcodec = "none" /\ f.acodec \in {"opus", "mp4a", Absent}
    \/ f.resolution = "audio only"

C18_CandidateIffCodecsOrAudioOnly ==
    audio_tracks.kind = "tracks" =>
        /\ \A k \in 1..Len(audio_tracks.tracks) :
              /\ SourcesOf(audio_tracks.tracks[k]) # {}
              /\ \A i \in SourcesOf(audio_tracks.tracks[k]) : CodeCandidate(formats[i])
        /\ \A i \in 1..Len(formats) : CodeCandidate(formats[i]) => Represented(i)

\* A video with a format that has no codec at all but the resolution
\* 'audio only', a format without video and with no acodec field, and a
\* video format with sound: the first two give tracks, the third none.
C18_Witness ==
    /\ audio_tracks.kind = "tracks"
    /\ Len(formats) = 3
    /\ {formats[i].format_id : i \in 1..3} = {"s1", "a4", "v2"}
    /\ {audio_tracks.tracks[k].format_id : k \in 1..Len(audio_tracks.tracks)} = {"s1", "a4"}

(* C19: for every candidate format the language label chosen by            *)
(* get_audio_tracks is the text before the first comma or dash separator    *)
(* of the note when the note is non-empty; otherwise the language field     *)
(* when present; otherwise the literal 'default'.                           *)
BeforeFirstSeparator(note) ==
    LET by_comma == SplitFirst(note, <<",">>)
        by_dash  == SplitFirst(note, S_sep)
    IN  IF Len(by_comma) <= Len(by_dash) THEN by_comma ELSE by_dash

ClaimedLabel(f) ==
    IF f.format_note # <<>> THEN BeforeFirstSeparator(f.format_note)
    ELSE IF f.language # <<>> THEN f.language
    ELSE S_default

C19_LabelFromNoteLanguageDefault ==
    audio_tracks.kind = "tracks" =>
        \A k \in 1..Len(audio_tracks.tracks) :
            \E i \in SourcesOf(audio_tracks.tracks[k]) :
                audio_tracks.tracks[k].language = ClaimedLabel(formats[i])

-----------------------------------------------------------------------------
(* DownloadService.download_video: the format selector                      *)

\* An Optional[str]: None, or a string of characters.
NoStr == [some |-> FALSE, s |-> <<>>]
SomeStr(s) == [some |-> TRUE, s |-> s]

\* Python truthiness of an Optional[str]: None and "" are false.
Truthy(o) == o.some /\ o.s # <<>>

\* str.endswith(c) for a one-character suffix.
EndsWith(s, c) == Len(s) > 0 /\ s[Len(s)] = c

\* s[:-1]
DropLast(s) == IF Len(s) = 0 THEN <<>> ELSE SubSeq(s, 1, Len(s) - 1)

\* str.isdigit(): non-empty and every character a digit.
IsDigit(s) == Len(s) > 0 /\ \A i \in 1..Len(s) : InSeq(s[i], DigitChars)

Q_highest == <<"h", "i", "g", "h", "e", "s", "t">>
Q_1080p   == <<"1", "0", "8", "0", "p">>
Q_720p    == <<"7", "2", "0", "p">>
Q_480p    == <<"4", "8", "0", "p">>
Q_360p    == <<"3", "6", "0", "p">>
Q_240p    == <<"2", "4", "0", "p">>

S_bestvideo_mp4  == <<"b", "e", "s", "t", "v", "i", "d", "e", "o", "[", "e", "x", "t", "=", "m", "p", "4", "]">>
S_bestvideo_1080 == <<"b", "e", "s", "t", "v", "i", "d", "e", "o", "[", "h", "e", "i", "g", "h", "t", "<", "=", "1", "0", "8", "0", "]", "[", "e", "x", "t", "=", "m", "p", "4", "]">>
S_bestvideo_720  == <<"b", "e", "s", "t", "v", "i", "d", "e", "o", "[", "h", "e", "i", "g", "h", "t", "<", "=", "7", "2", "0", "]", "[", "e", "x", "t", "=", "m", "p", "4", "]">>
S_bestvideo_480  == <<"b", "e", "s", "t", "v", "i", "d", "e", "o", "[", "h", "e", "i", "g", "h", "t", "<", "=", "4", "8", "0", "]", "[", "e", "x", "t", "=", "m", "p", "4", "]">>
S_bestvideo_360  == <<"b", "e", "s", "t", "v", "i", "d", "e", "o", "[", "h", "e", "i", "g", "h", "t", "<", "=", "3", "6", "0", "]", "[", "e", "x", "t", "=", "m", "p", "4", "]">>
S_bestvideo_240  == <<"b", "e", "s", "t", "v", "i", "d", "e", "o", "[", "h", "e", "i", "g", "h", "t", "<", "=", "2", "4", "0", "]", "[", "e", "x", "t", "=", "m", "p", "4", "]">>
S_plus           == <<"+">>
S_plus_bestaudio == <<"+", "b", "e", "s", "t", "a", "u", "d", "i", "o", "[", "e", "x", "t", "=", "m", "4", "a", "]">>
S_best_height    == <<"/", "b", "e", "s", "t", "[", "h", "e", "i", "g", "h", "t", "<", "=">>
S_mp4_best       == <<"]", "[", "e", "x", "t", "=", "m", "p", "4", "]", "/", "b", "e", "s", "t">>
S_1080           == <<"1", "0", "8", "0">>

\* format_map.get(quality, 'bestvideo[ext=mp4]'), download_service.py lines 114-122
\* (the same table as main.py lines 357-365).
FormatMapGet(quality) ==
    CASE quality = Q_highest -> S_bestvideo_mp4
      [] quality = Q_1080p   -> S_bestvideo_1080
      [] quality = Q_720p    -> S_bestvideo_720
      [] quality = Q_480p    -> S_bestvideo_480
      [] quality = Q_360p    -> S_bestvideo_360
      [] quality = Q_240p    -> S_bestvideo_240
      [] OTHER               -> S_bestvideo_mp4

\* Lines 125-128.
AudioPart(audio_format_id) ==
    IF Truthy(audio_format_id)
    THEN S_plus \o audio_format_id.s
    ELSE S_plus_bestaudio

FallbackHeightMutantAlways1080(quality) == S_1080

\* Line 131.
FallbackHeight(quality) ==
    IF EndsWith(quality, "p") /\ IsDigit(DropLast(quality))
    THEN DropLast(quality)
    ELSE S_1080

\* Lines 122-132: the selector download_video hands to the library.
BuildSelector(quality, audio_format_id) ==
    FormatMapGet(quality) \o AudioPart(audio_format_id)
        \o S_best_height \o FallbackHeight(quality) \o S_mp4_best

\* main.py line 375: the fallback height of the single-file script.
MainFallbackHeight(quality) ==
    IF EndsWith(quality, "p") THEN DropLast(quality) ELSE S_1080

\* main.py lines 366-375: download_video of the single-file script.
MainBuildSelector(quality, audio_format_id) ==
    FormatMapGet(quality) \o AudioPart(audio_format_id)
        \o S_best_height \o MainFallbackHeight(quality) \o S_mp4_best

\* The quality strings tried: the six tiers and some unrecognized ones.
Qualities == {Q_highest, Q_1080p, Q_720p, Q_480p, Q_360p, Q_240p,
              <<"1", "4", "4", "p">>, <<"2", "1", "6", "0", "p">>, <<"b", "e", "s", "t">>, <<"p">>, <<>>}

\* The explicit audio format ids tried: None, "", and two ids.
AudioFormatIds == {NoStr, SomeStr(<<>>), SomeStr(<<"a", "1">>), SomeStr(<<"a", "2">>)}

-----------------------------------------------------------------------------
(* How the extraction library resolves a format selector, as far as the     *)
(* selector built above uses it: alternatives separated by "/" are tried    *)
(* left to right and the first satisfiable one wins; the parts of an        *)
(* alternative joined by "+" must all be satisfiable; "bestvideo",          *)
(* "bestaudio" and "best" pick the best video-only, audio-only and          *)
(* whole-media stream that passes the [..] filters; any other name is a     *)
(* format id.                                                               *)

FirstIndex(c, s) == CHOOSE i \in 1..Len(s) : s[i] = c /\ \A j \in 1..(i - 1) : s[j] # c

\* s.split(c) for a one-character separator.
RECURSIVE SplitOn(_, _)
SplitOn(s, c) ==
    IF ~InSeq(c, s) THEN <<s>>
    ELSE LET i == FirstIndex(c, s) IN
         <<SubSeq(s, 1, i - 1)>> \o SplitOn(SubSeq(s, i + 1, Len(s)), c)

DigitVal(c) == IndexIn(c, DigitChars) - 1

RECURSIVE ParseNat(_)
ParseNat(s) == IF s = <<>> THEN 0 ELSE 10 * ParseNat(DropLast(s)) + DigitVal(s[Len(s)])

\* A stream the source offers. kind: "video" (video only), "audio" (audio
\* only) or "muxed" (whole media); height is 0 for audio.
Stream(id, kind, height, ext) == [id |-> id, kind |-> kind, height |-> height, ext |-> ext]

StreamPool == {
    Stream("v240",  "video", 240,  "mp4"),
    Stream("v1080", "video", 1080, "mp4"),
    Stream("a1",    "audio", 0,    "m4a"),
    Stream("a2",    "audio", 0,    "webm"),
    Stream("m240",  "muxed", 240,  "mp4"),
    Stream("m1080", "muxed", 1080, "mp4"),
    Stream("w360",  "muxed", 360,  "webm"),
    Stream("w2160", "muxed", 2160, "webm") }

\* The alternatives of a selector, each a sequence of parts.
Alternatives(selector) ==
    LET alts == SplitOn(selector, "/") IN
    [k \in 1..Len(alts) |-> SplitOn(alts[k], "+")]

PartName(part) == SplitOn(part, "[")[1]

\* The texts between the brackets of a part.
PartFilters(part) ==
    LET segs == SplitOn(part, "[") IN
    {DropLast(segs[k]) : k \in 2..Len(segs)}

S_le == <<"<", "=">>

\* One filter: height<=N or ext=X.
FilterHolds(filter, stream) ==
    IF Contains(filter, S_le)
    THEN stream.height <= ParseNat(SubSeq(filter, Len(SplitFirst(filter, S_le)) + 3, Len(filter)))
    ELSE stream.ext = Str(SubSeq(filter, FirstIndex("=", filter) + 1, Len(filter)))

NameMatches(name, stream) ==
    CASE name = "bestvideo" -> stream.kind = "video"
      [] name = "bestaudio" -> stream.kind = "audio"
      [] name = "best"      -> stream.kind = "muxed"
      [] OTHER              -> stream.id = name

\* The streams a part may pick.
PartMatches(part, streams) ==
    {s \in streams : /\ NameMatches(Str(PartName(part)), s)
                     /\ \A f \in PartFilters(part) : FilterHolds(f, s)}

\* 'best' picks the highest available.
Best(S) == CHOOSE s \in S : \A t \in S : t.height <= s.height

Satisfiable(alt, streams) == \A k \in 1..Len(alt) : PartMatches(alt[k], streams) # {}

\* The streams selected: those of the first satisfiable alternative ({} when
\* there is none).
Resolve(selector, streams) ==
    LET alts == Alternatives(selector)
        ok == {k \in 1..Len(alts) : Satisfiable(alts[k], streams)}
    IN  IF ok = {} THEN {}
        ELSE LET alt == alts[CHOOSE k \in ok : \A j \in ok : k <= j] IN
             {Best(PartMatches(alt[k], streams)) : k \in 1..Len(alt)}

\* download_video as far as the selection goes: the selector is built from
\* the quality and the explicit audio id of the request, and the library
\* resolves it over the streams the source offers.
DownloadVideoSelect ==
    /\ sel.op = "request"
    /\ sel' = [op |-> "download_video", quality |-> sel.quality,
               audio_format_id |-> sel.audio_format_id,
               selector |-> BuildSelector(sel.quality, sel.audio_format_id),
               main_selector |-> MainBuildSelector(sel.quality, sel.audio_format_id),
               streams |-> sel.streams,
               chosen |-> Resolve(BuildSelector(sel.quality, sel.audio_format_id),
                                  sel.streams)]

\* A request: a quality string, an explicit audio id or none, and the
\* streams the source offers.
InitSel ==
    sel \in [op : {"request"}, quality : Qualities,
             audio_format_id : AudioFormatIds, streams : SUBSET StreamPool]

NextSelector ==
    \/ DownloadVideoSelect /\ UNCHANGED <<cacheVars, trackVars, dlVars, sanVars, subVars, fileVars, restVars>>

InitSelectorSpec ==
    IdleCache /\ IdleTracks /\ InitSel /\ IdleDl /\ IdleSan /\ IdleSubs /\ IdleFile /\ IdleRest

SpecSelector == InitSelectorSpec /\ [][NextSelector]_vars

(* C4: for each of the six tiers and each explicit audio format id, absent  *)
(* or present, the selector is the tier's video-only selector, then         *)
(* '+<id>' if an id is supplied else '+bestaudio[ext=m4a]', then            *)
(* '/best[height<=H][ext=mp4]' with H the tier's number (1080 for highest), *)
(* then '/best'; in download_service.py and in main.py alike.  An empty     *)
(* string is no id: the code reads it as absent.                            *)
TierNumber == [q \in {"1080p", "720p", "480p", "360p", "240p"} |->
                 CASE q = "1080p" -> "1080" [] q = "720p" -> "720" [] q = "480p" -> "480"
                   [] q = "360p" -> "360" [] q = "240p" -> "240"]

Tiers == {"highest"} \cup DOMAIN TierNumber

ExpectedSelector(q, audio_format_id) ==
    (IF q = "highest" THEN "bestvideo[ext=mp4]"
     ELSE "bestvideo[height<=" \o TierNumber[q] \o "][ext=mp4]")
    \o (IF audio_format_id.some /\ audio_format_id.s # <<>>
        THEN "+" \o Str(audio_format_id.s) ELSE "+bestaudio[ext=m4a]")
    \o "/best[height<=" \o (IF q = "highest" THEN "1080" ELSE TierNumber[q]) \o "][ext=mp4]"
    \o "/best"

C4_TierSelector ==
    (sel.op = "download_video" /\ Str(sel.quality) \in Tiers) =>
        /\ Str(sel.selector) = ExpectedSelector(Str(sel.quality), sel.audio_format_id)
        /\ Str(sel.main_selector) = ExpectedSelector(Str(sel.quality), sel.audio_format_id)
        /\ (Str(sel.quality) = "720p" /\ ~sel.audio_format_id.some) =>
              Str(sel.selector) =
                  "bestvideo[height<=720][ext=mp4]+bestaudio[ext=m4a]/best[height<=720][ext=mp4]/best"

\* A numeric tier with an explicit audio id.
C4_Witness ==
    /\ sel.op = "download_video"
    /\ Str(sel.quality) = "480p"
    /\ sel.audio_format_id = SomeStr(<<"a", "1">>)
    /\ Str(sel.selector) = "bestvideo[height<=480][ext=mp4]+a1/best[height<=480][ext=mp4]/best"

(* C5: for every quality string that is not one of the six tiers, also one  *)
(* shaped like a tier (digits followed by 'p'), the selector uses the       *)
(* 'highest' video-only constraint and its whole-media fallback is bounded  *)
(* by height 1080.                                                          *)
C5_UnknownTierFallsBackTo1080 ==
    (sel.op = "download_video" /\ Str(sel.quality) \notin Tiers) =>
        Str(sel.selector) =
            "bestvideo[ext=mp4]"
            \o (IF Truthy(sel.audio_format_id)
                THEN "+" \o Str(sel.audio_format_id.s) ELSE "+bestaudio[ext=m4a]")
            \o "/best[height<=1080][ext=mp4]/best"

(* C6: for every tier with a height bound N and every set of offered        *)
(* streams, resolving the selector never yields a stream of height > N when *)
(* some stream (or combination) of height <= N satisfies one of its         *)
(* alternatives, the final unconstrained 'best' included.                   *)
CompliantChoiceExists(selector, streams, bound) ==
    \E k \in 1..Len(Alternatives(selector)) :
        Satisfiable(Alternatives(selector)[k], {s \in streams : s.height <= bound})

C6_NeverAboveBound ==
    (sel.op = "download_video" /\ Str(sel.quality) \in DOMAIN TierNumber) =>
        LET bound == ParseNat(DropLast(sel.quality)) IN
        CompliantChoiceExists(sel.selector, sel.streams, bound) =>
            \A s \in sel.chosen : s.height <= bound

-----------------------------------------------------------------------------
(* DownloadService: download_audio, download_video, download_subtitles      *)

NoPath == "<None>"    \* a None where a path string is expected

S_mp3       == <<".", "m", "p", "3">>
S_mp4       == <<".", "m", "p", "4">>
S_audio     == <<"a", "u", "d", "i", "o">>
S_video     == <<"v", "i", "d", "e", "o">>
S_out       == <<"o", "u", "t">>
S_tmpl_ext  == <<"%", "(", "t", "i", "t", "l", "e", ")", "s", ".", "%", "(", "e", "x", "t", ")", "s">>
S_tmpl      == <<"%", "(", "t", "i", "t", "l", "e", ")", "s">>
S_bestaudio == <<"b", "e", "s", "t", "a", "u", "d", "i", "o", "/", "b", "e", "s", "t">>

\* Characters outside ASCII for which str.isalnum() is true: the letter
\* e with acute accent and the digit superscript two, each written as one
\* character under a name in braces.
NonAsciiAlnum == {"{e'}", "{^2}"}

\* c.isalnum() for one character.
IsAlnum(c) ==
    \/ InSeq(c, UpperChars) \/ InSeq(c, LowerChars) \/ InSeq(c, DigitChars)
    \/ c \in NonAsciiAlnum

\* "".join(c if c.isalnum() or c in " -_." else "_" for c in title)
SafeTitle(title) ==
    [i \in 1..Len(title) |->
        IF IsAlnum(title[i]) \/ title[i] \in {" ", "-", "_", "."} THEN title[i] ELSE "_"]

\* os.path.join(a, b) on a POSIX system.
PathJoin(a, b) ==
    IF Len(b) > 0 /\ b[1] = "/" THEN b
    ELSE IF a = <<>> \/ EndsWith(a, "/") THEN a \o b
    ELSE a \o <<"/">> \o b

\* info.get('title', default)
TitleOr(title, default) == IF title.some THEN title.s ELSE default

Langs == {"en", "fr"}          \* subtitle language codes
MaxSubtitleIds == 2            \* at most MaxSubtitleIds codes are requested

\* The titles a video may have; NoStr: the info has no title.
Titles == {SomeStr(<<"O", "k">>), SomeStr(<<"{e'}", "!", " ", "1">>), NoStr}

\* models.DownloadOptions
DownloadOptionsSet ==
    [output_directory : {S_out},
     include_metadata : BOOLEAN, include_thumbnail : BOOLEAN, include_chapters : BOOLEAN,
     audio_format_id : {NoStr, SomeStr(<<>>), SomeStr(<<"a", "1">>)},
     subtitle_ids : SeqsUpTo(Langs, MaxSubtitleIds)]

\* What ydl.extract_info(url, download=True) does: return the info, return
\* None, raise DownloadError, or raise another error.
PrimaryOutcomes == {"info", "none", "DownloadError", "OtherError"}
SubtitleOutcomes == {"info", "none", "DownloadError"}

AudioYdlOptsMutantFixedFormat(options) ==
    [format |-> Str(S_bestaudio),
     outtmpl |-> Str(PathJoin(options.output_directory, S_tmpl_ext)),
     postprocessors |-> <<"FFmpegExtractAudio">>
                        \o (IF options.include_thumbnail THEN <<"EmbedThumbnail">> ELSE <<>>)
                        \o (IF options.include_metadata THEN <<"FFmpegMetadata">> ELSE <<>>),
     writethumbnail |-> options.include_thumbnail,
     embedchapters |-> FALSE,
     merge_output_format |-> NoPath]

\* download_audio lines 45-65: the options handed to the library.
AudioYdlOpts(options) ==
    [format |-> Str(IF Truthy(options.audio_format_id)
                    THEN options.audio_format_id.s ELSE S_bestaudio),
     outtmpl |-> Str(PathJoin(options.output_directory, S_tmpl_ext)),
     postprocessors |-> <<"FFmpegExtractAudio">>
                        \o (IF options.include_thumbnail THEN <<"EmbedThumbnail">> ELSE <<>>)
                        \o (IF options.include_metadata THEN <<"FFmpegMetadata">> ELSE <<>>),
     writethumbnail |-> options.include_thumbnail,
     embedchapters |-> FALSE,
     merge_output_format |-> NoPath]

VideoYdlOptsMutantMetadataFirst(quality, options) ==
    [format |-> Str(BuildSelector(quality, options.audio_format_id)),
     outtmpl |-> Str(PathJoin(options.output_directory, S_tmpl_ext)),
     postprocessors |-> (IF options.include_metadata THEN <<"FFmpegMetadata">> ELSE <<>>)
                        \o (IF options.include_thumbnail THEN <<"EmbedThumbnail">> ELSE <<>>),
     writethumbnail |-> options.include_thumbnail,
     embedchapters |-> options.include_chapters,
     merge_output_format |-> "mp4"]

\* download_video lines 113-153.
VideoYdlOpts(quality, options) ==
    [format |-> Str(BuildSelector(quality, options.audio_format_id)),
     outtmpl |-> Str(PathJoin(options.output_directory, S_tmpl_ext)),
     postprocessors |-> (IF options.include_thumbnail THEN <<"EmbedThumbnail">> ELSE <<>>)
                        \o (IF options.include_metadata THEN <<"FFmpegMetadata">> ELSE <<>>),
     writethumbnail |-> options.include_thumbnail,
     embedchapters |-> options.include_chapters,
     merge_output_format |-> "mp4"]

\* download_subtitles lines 205-212.
SubtitleYdlOpts(subtitle_ids, output_dir) ==
    [writesubtitles |-> TRUE, subtitleslangs |-> subtitle_ids, subtitlesformat |-> "vtt",
     skip_download |-> TRUE, quiet |-> TRUE,
     outtmpl |-> Str(PathJoin(output_dir, S_tmpl))]

MediaPathMutantNoInfoCheck(kind, options, primary, title) ==
    Str(PathJoin(options.output_directory,
                 SafeTitle(TitleOr(title, IF kind = "audio" THEN S_audio ELSE S_video))
                     \o (IF kind = "audio" THEN S_mp3 ELSE S_mp4)))

\* Lines 74-78 and 162-166: the media path, derived only when the library
\* returned an info.
MediaPath(kind, options, primary, title) ==
    IF primary = "info"
    THEN Str(PathJoin(options.output_directory,
                      SafeTitle(TitleOr(title, IF kind = "audio" THEN S_audio ELSE S_video))
                          \o (IF kind = "audio" THEN S_mp3 ELSE S_mp4)))
    ELSE NoPath

\* Lines 219-226: the path expected for one language code.
SubtitlePath(output_dir, title, lang) ==
    Str(PathJoin(output_dir, SafeTitle(TitleOr(title, S_video)))) \o "." \o lang \o ".vtt"

SubtitleExistsMutantAlways(files, sub_path) == TRUE

\* Line 227: os.path.exists(sub_path)
SubtitleExists(files, sub_path) == sub_path \in files

\* Lines 225-229: the loop over the requested codes, from position i on.
RECURSIVE SubtitleLoop(_, _, _, _, _, _)
SubtitleLoop(subtitle_ids, i, output_dir, title, files, subtitle_files) ==
    IF i > Len(subtitle_ids) THEN subtitle_files
    ELSE LET sub_path == SubtitlePath(output_dir, title, subtitle_ids[i]) IN
         SubtitleLoop(subtitle_ids, i + 1, output_dir, title, files,
                      IF SubtitleExists(files, sub_path)
                      THEN Append(subtitle_files, sub_path)
                      ELSE subtitle_files)

DownloadSubtitlesMutantAssumesWritten(subtitle_ids, output_dir, outcome, title, files) ==
    [i \in 1..Len(subtitle_ids) |-> SubtitlePath(output_dir, title, subtitle_ids[i])]

\* download_subtitles lines 198-234: what it returns. One library call
\* covers all the codes; whatever it raises (also the AttributeError of
\* info.get on None) is caught by the one try block around the call and the
\* loop, and the list built so far, still empty, is returned.
DownloadSubtitles(subtitle_ids, output_dir, outcome, title, files) ==
    IF subtitle_ids = <<>> THEN <<>>
    ELSE IF outcome # "info" THEN <<>>
    ELSE SubtitleLoop(subtitle_ids, 1, output_dir, title, files, <<>>)

ReturnsOnErrorMutantGoesOn(primary) == FALSE

\* Lines 81-83 and 169-171: except DownloadError: return None, []
ReturnsOnError(primary) == primary = "DownloadError"

SubtitlesRequestedMutantAlways(options) == TRUE

\* Lines 87 and 175: if options.subtitle_ids
SubtitlesRequested(options) == options.subtitle_ids # <<>>

\* Whether download_audio / download_video reach the download_subtitles call.
SubtitlesInvoked(options, primary) ==
    /\ primary # "OtherError"
    /\ ~ReturnsOnError(primary)
    /\ SubtitlesRequested(options)

\* Lines 67-91 and 155-179: what the caller gets.
DownloadResult(kind, options, primary, sub_outcome, title, files) ==
    IF primary = "OtherError"
    THEN [raised |-> TRUE, media |-> NoPath, subtitle_files |-> <<>>]
    ELSE IF ReturnsOnError(primary)
    THEN [raised |-> FALSE, media |-> NoPath, subtitle_files |-> <<>>]
    ELSE [raised |-> FALSE,
          media |-> MediaPath(kind, options, primary, title),
          subtitle_files |->
              IF SubtitlesRequested(options)
              THEN DownloadSubtitles(options.subtitle_ids, options.output_directory,
                                     sub_outcome, title, files)
              ELSE <<>>]

\* The files the library may leave behind.  Its own expansion of the output
\* template is not the code's SafeTitle: a file is written either under the
\* sanitized title or under the title as it is.
LibraryStem(output_dir, title, default, naming) ==
    Str(PathJoin(output_dir, IF naming = "safe"
                             THEN SafeTitle(TitleOr(title, default))
                             ELSE TitleOr(title, default)))

MediaWritten(kind, options, primary, title, naming) ==
    IF primary = "info"
    THEN {LibraryStem(options.output_directory, title,
                      IF kind = "audio" THEN S_audio ELSE S_video, naming)
              \o (IF kind = "audio" THEN ".mp3" ELSE ".mp4")}
    ELSE {}

SubtitlesWritten(options, title, naming, langs) ==
    {LibraryStem(options.output_directory, title, S_video, naming) \o "." \o l \o ".vtt" :
        l \in langs}

\* One whole download_audio / download_video call for the request in dl.
\* primary, sub_outcome: what the two library calls do; naming, langs: the
\* files they write (langs: the codes whose subtitle file was written before
\* the subtitle call returned or raised).
Download(kind, primary, sub_outcome, naming, langs) ==
    /\ dl.op = "request"
    /\ dl.kind = kind
    /\ LET options == dl.options
           invoked == SubtitlesInvoked(options, primary)
           called  == invoked /\ options.subtitle_ids # <<>>
           files   == fs \cup {Str(options.output_directory)}
                         \cup MediaWritten(kind, options, primary, dl.title, naming)
                         \cup (IF called
                               THEN SubtitlesWritten(options, dl.title, naming, langs)
                               ELSE {})
       IN  /\ langs \subseteq {options.subtitle_ids[i] : i \in 1..Len(options.subtitle_ids)}
           /\ ~called => (sub_outcome = "info" /\ langs = {})
           /\ fs' = files
           /\ dl' = [op |-> "done", kind |-> kind, quality |-> dl.quality,
                     options |-> options, title |-> dl.title,
                     ydl_opts |-> IF kind = "audio" THEN AudioYdlOpts(options)
                                  ELSE VideoYdlOpts(dl.quality, options),
                     primary |-> primary,
                     subtitles_invoked |-> invoked,
                     sub_outcome |-> IF called THEN sub_outcome ELSE "not called",
                     written_langs |-> IF called THEN langs ELSE {},
                     naming |-> naming,
                     library_calls |-> <<"download">>
                                       \o (IF called THEN <<"subtitles">> ELSE <<>>),
                     result |-> DownloadResult(kind, options, primary, sub_outcome,
                                               dl.title, files)]

DownloadAudio ==
    \E primary \in PrimaryOutcomes, sub_outcome \in SubtitleOutcomes,
       naming \in {"safe", "raw"}, langs \in SUBSET Langs :
        Download("audio", primary, sub_outcome, naming, langs)

DownloadVideo ==
    \E primary \in PrimaryOutcomes, sub_outcome \in SubtitleOutcomes,
       naming \in {"safe", "raw"}, langs \in SUBSET Langs :
        Download("video", primary, sub_outcome, naming, langs)

\* A request (content kind, quality, options), the title of the video, and
\* the subtitle files left in the output directory by earlier downloads.
InitDl ==
    /\ dl \in [op : {"request"}, kind : {"audio", "video"}, quality : {Q_720p},
               options : DownloadOptionsSet, title : Titles]
    /\ fs \in SUBSET {SubtitlePath(dl.options.output_directory, dl.title, l) : l \in Langs}

NextDownload ==
    \/ DownloadAudio /\ UNCHANGED <<cacheVars, trackVars, selVars, sanVars, subVars, fileVars, restVars>>
    \/ DownloadVideo /\ UNCHANGED <<cacheVars, trackVars, selVars, sanVars, subVars, fileVars, restVars>>

InitDownloadSpec ==
    IdleCache /\ IdleTracks /\ IdleSel /\ InitDl /\ IdleSan /\ IdleSubs /\ IdleFile /\ IdleRest

SpecDownload == InitDownloadSpec /\ [][NextDownload]_vars

(* C7 (as claimed): whenever subtitle_ids is non-empty, download_audio and  *)
(* download_video invoke subtitle acquisition after the primary download    *)
(* attempt, whether it succeeded, returned no metadata or raised a          *)
(* download-layer error; when subtitle_ids is empty they never do.          *)
C7_SubtitlesWheneverRequested ==
    (dl.op = "done" /\ dl.primary \in {"info", "none", "DownloadError"}) =>
        (dl.subtitles_invoked <=> dl.options.subtitle_ids # <<>>)

(* C7 (amended): subtitle acquisition is invoked iff subtitle_ids is        *)
(* non-empty and the primary download call returned, with or without        *)
(* metadata; it then follows the primary call.  When the primary call       *)
(* raises, or subtitle_ids is empty, it is not invoked.                     *)
C7_SubtitlesIffRequestedAndReturned ==
    dl.op = "done" =>
        /\ dl.subtitles_invoked <=>
              (dl.options.subtitle_ids # <<>> /\ dl.primary \in {"info", "none"})
        /\ dl.subtitles_invoked => dl.library_calls = <<"download", "subtitles">>
        /\ ~dl.subtitles_invoked => dl.library_calls = <<"download">>

\* The primary call returned no metadata and the subtitles were still fetched.
C7_Witness ==
    /\ dl.op = "done"
    /\ dl.primary = "none"
    /\ dl.subtitles_invoked
    /\ dl.result.media = NoPath
    /\ dl.result.subtitle_files # <<>>

(* C8: when the extraction-with-download call raises a download-layer       *)
(* error, download_audio and download_video return no media path and an     *)
(* empty subtitle list, do not raise, and make no further library call.     *)
C8_DownloadErrorGivesEmptyResult ==
    (dl.op = "done" /\ dl.primary = "DownloadError") =>
        /\ dl.result = [raised |-> FALSE, media |-> NoPath, subtitle_files |-> <<>>]
        /\ dl.library_calls = <<"download">>

\* A download error while subtitles were requested and their files exist.
C8_Witness ==
    /\ dl.op = "done"
    /\ dl.primary = "DownloadError"
    /\ Len(dl.options.subtitle_ids) = 2
    /\ \A i \in 1..2 :
          SubtitlePath(dl.options.output_directory, dl.title, dl.options.subtitle_ids[i]) \in fs

(* C9: in download_subtitles with several requested codes, a failure for    *)
(* one code (an error raised while acquiring it, or its file missing) does  *)
(* not remove from the result the paths of the other requested codes whose  *)
(* files did materialize.                                                   *)
C9_OtherLanguagesStillReturned ==
    (/\ dl.op = "done"
     /\ dl.sub_outcome \in {"info", "DownloadError"}
     /\ \E k \in 1..Len(dl.options.subtitle_ids) :
           dl.options.subtitle_ids[k] \notin dl.written_langs) =>
        \A i \in 1..Len(dl.options.subtitle_ids) :
            LET sub_path == SubtitlePath(dl.options.output_directory, dl.title,
                                         dl.options.subtitle_ids[i])
            IN  (dl.options.subtitle_ids[i] \in dl.written_langs /\ sub_path \in fs) =>
                    \E j \in 1..Len(dl.result.subtitle_files) :
                        dl.result.subtitle_files[j] = sub_path

(* C10: when the subtitle extraction call returns its metadata,             *)
(* download_subtitles returns exactly the expected paths                    *)
(* '<output_dir>/<sanitized title>.<code>.vtt' that exist on the            *)
(* filesystem, in the order the codes were requested, and raises nothing    *)
(* for a code whose file is missing.  The sanitized titles are those the    *)
(* code computes for the titles of the model.                               *)
ExpectedStem(title) ==
    CASE title = SomeStr(<<"O", "k">>)           -> "out/Ok"
      [] title = SomeStr(<<"{e'}", "!", " ", "1">>) -> "out/{e'}_ 1"
      [] title = NoStr                           -> "out/video"

ExpectedSubtitlePaths ==
    [i \in 1..Len(dl.options.subtitle_ids) |->
        ExpectedStem(dl.title) \o "." \o dl.options.subtitle_ids[i] \o ".vtt"]

OnDisk(path) == path \in fs

C10_ExistingPathsInOrder ==
    (dl.op = "done" /\ dl.sub_outcome = "info") =>
        /\ dl.result.subtitle_files = SelectSeq(ExpectedSubtitlePaths, OnDisk)
        /\ ~dl.result.raised

\* Codes [en, fr] with only the en file on disk: the single en path.
C10_Witness ==
    /\ dl.op = "done"
    /\ dl.sub_outcome = "info"
    /\ dl.options.subtitle_ids = <<"en", "fr">>
    /\ dl.title = SomeStr(<<"O", "k">>)
    /\ "out/Ok.en.vtt" \in fs
    /\ "out/Ok.fr.vtt" \notin fs
    /\ dl.result.subtitle_files = <<"out/Ok.en.vtt">>

(* C11: download_audio and download_video return a media path iff the       *)
(* extraction-with-download call returned metadata without raising; the     *)
(* path is then '<output_directory>/<sanitized title>.<ext>' with ext mp3   *)
(* for audio and mp4 for video, a function of the output directory, the     *)
(* returned title and the content kind alone (not of the other options, of  *)
(* the subtitle step or of the files the library wrote).                    *)
ExpectedMediaPath ==
    IF dl.title.some
    THEN ExpectedStem(dl.title) \o (IF dl.kind = "audio" THEN ".mp3" ELSE ".mp4")
    ELSE IF dl.kind = "audio" THEN "out/audio.mp3" ELSE "out/video.mp4"

C11_MediaPathIffInfo ==
    dl.op = "done" =>
        /\ dl.result.media # NoPath <=> dl.primary = "info"
        /\ dl.primary = "info" =>
              /\ ~dl.result.raised
              /\ dl.result.media = ExpectedMediaPath

\* An audio download with an explicit audio format and a failed subtitle
\* step still returns the mp3 path made from the title.
C11_Witness ==
    /\ dl.op = "done"
    /\ dl.kind = "audio"
    /\ dl.primary = "info"
    /\ dl.sub_outcome = "DownloadError"
    /\ dl.options.audio_format_id.some
    /\ dl.title = SomeStr(<<"{e'}", "!", " ", "1">>)
    /\ dl.result.media = "out/{e'}_ 1.mp3"

(* C17 (as claimed): for an audio download the format selector handed to    *)
(* the library is the same fixed best-audio selector for every              *)
(* configuration, whatever its explicit audio format id.                    *)
C17_FixedAudioSelector ==
    (dl.op = "done" /\ dl.kind = "audio") => dl.ydl_opts.format = "bestaudio/best"

(* C17 (amended): for an audio download the format selector is the          *)
(* configuration's explicit audio format id when that is a non-empty        *)
(* string, and the fixed selector 'bestaudio/best' when it is None or       *)
(* empty; no other field of the configuration changes it.                   *)
C17_AudioSelectorIsIdOrBest ==
    (dl.op = "done" /\ dl.kind = "audio") =>
        dl.ydl_opts.format =
            CASE dl.options.audio_format_id = SomeStr(<<"a", "1">>) -> "a1"
              [] dl.options.audio_format_id = SomeStr(<<>>)         -> "bestaudio/best"
              [] dl.options.audio_format_id = NoStr                 -> "bestaudio/best"

\* An audio download with the explicit audio format a1.
C17_Witness ==
    /\ dl.op = "done"
    /\ dl.kind = "audio"
    /\ dl.options.audio_format_id = SomeStr(<<"a", "1">>)
    /\ dl.ydl_opts.format = "a1"
    /\ dl.primary = "info"

(* C21: a failure inside subtitle acquisition (an error of the library, or  *)
(* a missing file for a requested code) never changes the primary result:   *)
(* download_audio and download_video still return the media path derived    *)
(* from the successful primary download, the subtitle list holds only       *)
(* paths of requested codes whose files exist, and nothing is raised.       *)
SubtitleStepFailed ==
    /\ dl.subtitles_invoked
    /\ \/ dl.sub_outcome # "info"
       \/ \E i \in 1..Len(dl.options.subtitle_ids) :
              ExpectedSubtitlePaths[i] \notin fs

C21_SubtitleFailureKeepsPrimary ==
    (dl.op = "done" /\ dl.primary = "info" /\ SubtitleStepFailed) =>
        /\ dl.result.media = ExpectedMediaPath
        /\ ~dl.result.raised
        /\ \A j \in 1..Len(dl.result.subtitle_files) :
              /\ dl.result.subtitle_files[j] \in fs
              /\ \E i \in 1..Len(dl.options.subtitle_ids) :
                    dl.result.subtitle_files[j] = ExpectedSubtitlePaths[i]

\* The subtitle call raised after one of two files was written: the video
\* path is returned all the same.
C21_Witness ==
    /\ dl.op = "done"
    /\ dl.kind = "video"
    /\ dl.primary = "info"
    /\ dl.sub_outcome = "DownloadError"
    /\ dl.options.subtitle_ids = <<"en", "fr">>
    /\ dl.written_langs = {"en"}
    /\ dl.title = SomeStr(<<"O", "k">>)
    /\ dl.result.media = "out/Ok.mp4"
    /\ ~dl.result.raised

\* The stem under which the library wrote the files of the finished call:
\* its expansion of the output template for the title.
TemplateStem(default) ==
    LibraryStem(dl.options.output_directory, dl.title, default, dl.naming)

\* C27: for every title, the media path returned by download_audio /
\* download_video and the '<base>.<code>.vtt' paths existence-checked by
\* download_subtitles have the same filename stem as the expansion of the
\* output template passed to the library in the same call.
C27_DerivedStemIsTemplateStem ==
    (dl.op = "done" /\ dl.primary = "info") =>
        /\ dl.result.media =
              TemplateStem(IF dl.kind = "audio" THEN S_audio ELSE S_video)
                  \o (IF dl.kind = "audio" THEN ".mp3" ELSE ".mp4")
        /\ dl.sub_outcome = "info" =>
              \A i \in 1..Len(dl.options.subtitle_ids) :
                  ExpectedSubtitlePaths[i] =
                      TemplateStem(S_video) \o "." \o dl.options.subtitle_ids[i] \o ".vtt"

\* The positions of a step in the postprocessor list handed to the library.
StepsAt(d, key) ==
    {i \in 1..Len(d.ydl_opts.postprocessors) : d.ydl_opts.postprocessors[i] = key}

\* The option set of a finished call d, read against its configuration.
OptionSetFollowsConfiguration(d) ==
    LET o == d.options
        y == d.ydl_opts
        steps == {y.postprocessors[i] : i \in 1..Len(y.postprocessors)}
    IN  /\ y.writethumbnail <=> o.include_thumbnail
        /\ "EmbedThumbnail" \in steps <=> o.include_thumbnail
        /\ "FFmpegMetadata" \in steps <=> o.include_metadata
        /\ y.embedchapters <=> (d.kind = "video" /\ o.include_chapters)
        /\ "FFmpegExtractAudio" \in steps <=> d.kind = "audio"
        /\ d.kind = "audio" => y.postprocessors[1] = "FFmpegExtractAudio"
        /\ steps \subseteq {"FFmpegExtractAudio", "EmbedThumbnail", "FFmpegMetadata"}
        /\ Len(y.postprocessors) = Cardinality(steps)
        /\ \A i \in StepsAt(d, "EmbedThumbnail"), j \in StepsAt(d, "FFmpegMetadata") : i < j
        /\ y.outtmpl = "out/%(title)s.%(ext)s"
        /\ y.merge_output_format = IF d.kind = "video" THEN "mp4" ELSE NoPath

\* C30: a download never modifies the DownloadOptions it receives, and the
\* option set handed to the library follows from the configuration (and the
\* quality tier) alone: thumbnail writing and the thumbnail-embed step iff
\* include_thumbnail, the metadata step iff include_metadata, chapter
\* embedding iff include_chapters (video), the audio-extract step first and
\* thumbnail-embed before metadata, whatever the library calls do, whatever
\* the title and whatever the output directory holds.
C30_OptionsUnchangedAndDecisive ==
    [][(dl.op = "request" /\ dl'.op = "done") =>
          /\ dl'.options = dl.options
          /\ dl'.kind = dl.kind /\ dl'.quality = dl.quality
          /\ OptionSetFollowsConfiguration(dl')]_vars

\* A finished video download with thumbnail, metadata and chapters all on.
C30_Witness ==
    /\ dl.op = "done"
    /\ dl.kind = "video"
    /\ dl.options.include_thumbnail
    /\ dl.options.include_metadata
    /\ dl.options.include_chapters
    /\ dl.ydl_opts.postprocessors = <<"EmbedThumbnail", "FFmpegMetadata">>
    /\ dl.ydl_opts.writethumbnail
    /\ dl.ydl_opts.embedchapters

-----------------------------------------------------------------------------
(* Title sanitization: VideoInfo.filename_safe_title and the three places   *)
(* of DownloadService that repeat its expression                            *)

\* The characters a title is made of: ASCII letters and a digit, the four
\* other characters the code keeps, a punctuation mark, a letter and a digit
\* outside ASCII.
TitleChars == {"a", "Z", "7", " ", "-", "_", ".", "!", "{e'}", "{^2}"}

MaxTitleLen == 3      \* a title has at most MaxTitleLen characters

Places == {"filename_safe_title", "download_audio", "download_video", "download_subtitles"}

FilenameSafeTitleMutantAsciiOnly(title) ==
    [i \in 1..Len(title) |->
        IF \/ InSeq(title[i], UpperChars) \/ InSeq(title[i], LowerChars)
           \/ InSeq(title[i], DigitChars) \/ title[i] \in {" ", "-", "_", "."}
        THEN title[i] ELSE "_"]

\* models.py lines 19-22: the filename_safe_title property.
FilenameSafeTitle(title) ==
    [i \in 1..Len(title) |->
        IF IsAlnum(title[i]) \/ title[i] \in {" ", "-", "_", "."} THEN title[i] ELSE "_"]

\* What the sanitizing expression of one place makes of a title.
SanitizeAt(place, title) ==
    IF place = "filename_safe_title" THEN FilenameSafeTitle(title) ELSE SafeTitle(title)

\* One place sanitizes the title of the request.
Sanitize(place) ==
    /\ san.op = "request"
    /\ ~san.out[place].some
    /\ san' = [san EXCEPT !.out[place] = SomeStr(SanitizeAt(place, san.title))]

FilenameSafeTitleGet == Sanitize("filename_safe_title")
DownloadAudioSanitize == Sanitize("download_audio")
DownloadVideoSanitize == Sanitize("download_video")
DownloadSubtitlesSanitize == Sanitize("download_subtitles")

InitSan ==
    san \in [op : {"request"}, title : SeqsUpTo(TitleChars, MaxTitleLen),
             out : [Places -> {NoStr}]]

NextSanitize ==
    \/ FilenameSafeTitleGet
          /\ UNCHANGED <<cacheVars, trackVars, selVars, dlVars, subVars, fileVars, restVars>>
    \/ DownloadAudioSanitize
          /\ UNCHANGED <<cacheVars, trackVars, selVars, dlVars, subVars, fileVars, restVars>>
    \/ DownloadVideoSanitize
          /\ UNCHANGED <<cacheVars, trackVars, selVars, dlVars, subVars, fileVars, restVars>>
    \/ DownloadSubtitlesSanitize
          /\ UNCHANGED <<cacheVars, trackVars, selVars, dlVars, subVars, fileVars, restVars>>

InitSanitizeSpec ==
    IdleCache /\ IdleTracks /\ IdleSel /\ IdleDl /\ InitSan /\ IdleSubs /\ IdleFile /\ IdleRest

SpecSanitize == InitSanitizeSpec /\ [][NextSanitize]_vars

(* C12: sanitization maps the title character by character, keeping its    *)
(* length: a character of [A-Za-z0-9], a space, '-', '_' or '.' is kept,    *)
(* and every other character, letters and digits outside ASCII included,    *)
(* becomes '_'.                                                             *)
AsciiSafeChars == {"a", "Z", "7", " ", "-", "_", "."}

C12_OnlyAsciiSafeKept ==
    \A place \in Places :
        (san.op = "request" /\ san.out[place].some) =>
            /\ Len(san.out[place].s) = Len(san.title)
            /\ \A i \in 1..Len(san.title) :
                  san.out[place].s[i] =
                      IF san.title[i] \in AsciiSafeChars THEN san.title[i] ELSE "_"

(* C13: sanitization is idempotent; a title made only of the characters    *)
(* [A-Za-z0-9], space, '-', '_', '.' comes back unchanged; and the four     *)
(* places that sanitize give the same output for the same title.            *)
C13_IdempotentSameEverywhere ==
    \A place \in Places :
        (san.op = "request" /\ san.out[place].some) =>
            /\ \A again \in Places : SanitizeAt(again, san.out[place].s) = san.out[place].s
            /\ (\A i \in 1..Len(san.title) : san.title[i] \in AsciiSafeChars) =>
                  san.out[place].s = san.title
            /\ \A other \in Places :
                  san.out[other].some => san.out[other].s = san.out[place].s

\* All four places have sanitized a title that holds a replaced character
\* and a kept letter outside ASCII.
C13_Witness ==
    /\ san.op = "request"
    /\ san.title = <<"{e'}", "!", "a">>
    /\ \A place \in Places : san.out[place] = SomeStr(<<"{e'}", "_", "a">>)

-----------------------------------------------------------------------------
(* MetadataService.get_available_subtitles                                  *)

S_auto == <<"a", "u", "t", "o">>

\* A raw subtitle record of info.subtitles[lang_code]: its display name
\* (NoStr: no 'name' key) and its format id (Absent: no 'format_id' key).
RawSubtitlePool == {
    [name |-> SomeStr(<<"E", "n">>), format_id |-> "vtt"],
    [name |-> SomeStr(<<"A", "u", "T", "o">>), format_id |-> "srv1"],
    [name |-> SomeStr(<<"x", "-", "a", "u", "t", "o">>), format_id |-> Absent],
    [name |-> NoStr, format_id |-> "ttml"] }

MaxSubsPerLang == 2   \* a language code lists at most MaxSubsPerLang records

\* info.subtitles: language code -> list of raw records, possibly empty.
RawSubtitleDicts ==
    UNION {[codes -> SeqsUpTo(RawSubtitlePool, MaxSubsPerLang)] : codes \in SUBSET Langs}

IsAutoGeneratedMutantCaseSensitive(sub) ==
    Contains(IF sub.name.some THEN sub.name.s ELSE <<>>, S_auto)

\* Line 146: 'auto' in sub.get('name', '').lower()
IsAutoGenerated(sub) ==
    Contains(Lower(IF sub.name.some THEN sub.name.s ELSE <<>>), S_auto)

\* Lines 142-147.
MakeSubtitle(lang_code, sub) ==
    [language |-> IF sub.name.some THEN Str(sub.name.s) ELSE lang_code,
     language_code |-> lang_code,
     format_id |-> IF sub.format_id = Absent THEN "" ELSE sub.format_id,
     is_auto_generated |-> IsAutoGenerated(sub)]

\* Lines 133-150: the loop over info.subtitles.items().
SubtitleDict(raw) ==
    [lang_code \in {l \in DOMAIN raw : raw[l] # <<>>} |->
        [i \in 1..Len(raw[lang_code]) |-> MakeSubtitle(lang_code, raw[lang_code][i])]]

\* Lines 122-150: get_available_subtitles(url). The lookup goes through the
\* cache; an error of get_video_info propagates.
GetAvailableSubtitles(url, outcome) ==
    /\ GetVideoInfo(url, outcome, 0)
    /\ subtitles' = IF lookup'.result.kind = "VideoInfo"
                    THEN [kind |-> "subtitles", subs |-> SubtitleDict(raw_subtitles)]
                    ELSE [kind |-> lookup'.result.kind]
    /\ UNCHANGED raw_subtitles

InitSubs ==
    /\ raw_subtitles \in RawSubtitleDicts
    /\ subtitles = [kind |-> NotRun]

AvailableSubtitlesStep ==
    \E outcome \in ExtractOutcomes : GetAvailableSubtitles("u1", outcome)

NextSubtitles ==
    \/ AvailableSubtitlesStep /\ UNCHANGED <<trackVars, selVars, dlVars, sanVars, fileVars, restVars>>

\* The cache starts empty, with the longest ttl.
InitSubtitlesSpec ==
    /\ InitCache /\ cache_ttl = MaxTtl /\ IdleTracks
    /\ IdleSel /\ IdleDl /\ IdleSan /\ InitSubs /\ IdleFile /\ IdleRest

SpecSubtitles == InitSubtitlesSpec /\ [][NextSubtitles]_vars

(* C20: get_available_subtitles returns, for every language code whose raw *)
(* subtitle list is non-empty, one Subtitle per raw record in the same      *)
(* order, with is_auto_generated true iff the record's display name         *)
(* contains 'auto' ignoring case; language codes whose raw list is empty    *)
(* do not appear in the result.                                             *)
NamesWithAuto == {SomeStr(<<"A", "u", "T", "o">>), SomeStr(<<"x", "-", "a", "u", "t", "o">>)}

C20_OneSubtitlePerRecord ==
    subtitles.kind = "subtitles" =>
        /\ DOMAIN subtitles.subs = {l \in DOMAIN raw_subtitles : Len(raw_subtitles[l]) > 0}
        /\ \A l \in DOMAIN subtitles.subs :
              /\ Len(subtitles.subs[l]) = Len(raw_subtitles[l])
              /\ \A i \in 1..Len(subtitles.subs[l]) :
                    LET subtitle == subtitles.subs[l][i]
                        sub == raw_subtitles[l][i]
                    IN  /\ subtitle.language_code = l
                        /\ subtitle.language = IF sub.name.some THEN Str(sub.name.s) ELSE l
                        /\ subtitle.format_id \in {sub.format_id, ""}
                        /\ sub.format_id # Absent => subtitle.format_id = sub.format_id
                        /\ subtitle.is_auto_generated <=> sub.name \in NamesWithAuto

\* One code with two records, the first named 'AuTo', and one code with an
\* empty list: one entry, two subtitles in order, the first auto-generated.
C20_Witness ==
    /\ subtitles.kind = "subtitles"
    /\ DOMAIN raw_subtitles = {"en", "fr"}
    /\ raw_subtitles["fr"] = <<>>
    /\ Len(raw_subtitles["en"]) = 2
    /\ raw_subtitles["en"][1].name = SomeStr(<<"A", "u", "T", "o">>)
    /\ raw_subtitles["en"][2].name = SomeStr(<<"E", "n">>)
    /\ DOMAIN subtitles.subs = {"en"}
    /\ subtitles.subs["en"][1].is_auto_generated
    /\ ~subtitles.subs["en"][2].is_auto_generated
    /\ subtitles.subs["en"][2].language = "En"

-----------------------------------------------------------------------------
(* FileService (file_service.py) and UltraTubeExtractor.merge_subtitles     *)

\* An Optional[int].
NoInt == [some |-> FALSE, n |-> 0]
SomeInt(n) == [some |-> TRUE, n |-> n]

\* str(n) for a natural number.
RECURSIVE NatStr(_)
NatStr(n) ==
    IF n < 10 THEN DigitChars[n + 1]
    ELSE NatStr(n \div 10) \o DigitChars[(n % 10) + 1]

\* s.rfind(c) + 1: the last position of c in s, 0 when there is none.
LastIndex(s, c) ==
    IF InSeq(c, s) THEN CHOOSE i \in 1..Len(s) : s[i] = c /\ \A j \in (i + 1)..Len(s) : s[j] # c
    ELSE 0

\* s.rstrip('/')
RECURSIVE RStripSlash(_)
RStripSlash(s) ==
    IF s # <<>> /\ s[Len(s)] = "/" THEN RStripSlash(SubSeq(s, 1, Len(s) - 1)) ELSE s

\* os.path.dirname(p)
Dirname(p) ==
    LET head == SubSeq(p, 1, LastIndex(p, "/")) IN
    IF head # <<>> /\ (\E i \in 1..Len(head) : head[i] # "/") THEN RStripSlash(head) ELSE head

\* os.path.basename(p)
Basename(p) == SubSeq(p, LastIndex(p, "/") + 1, Len(p))

\* os.path.splitext(name)[0] for a name without a directory: the last dot
\* splits, unless only dots come before it.
SplitextRoot(name) ==
    LET dot == LastIndex(name, ".") IN
    IF dot > 0 /\ (\E i \in 1..(dot - 1) : name[i] # ".")
    THEN SubSeq(name, 1, dot - 1)
    ELSE name

S_processed == <<"_", "p", "r", "o", "c", "e", "s", "s", "e", "d", ".">>
S_with_subs == <<"_", "w", "i", "t", "h", "_", "s", "u", "b", "s", ".", "m", "p", "4">>

\* The media paths handed to the service: with a directory, without one, a
\* hidden file without extension, and a dot in the directory only.
MediaFiles == { <<"o", "/", "a", ".", "m">>, <<"a", ".", "m">>,
                <<"o", "/", ".", "h">>, <<"d", ".", "x", "/", "f">> }

SubtitleFiles == {"s1.vtt", "s2.vtt"}

MaxSubtitleFiles == 2     \* at most MaxSubtitleFiles subtitle files are merged

\* The output_file argument: None, the empty string, or a path.
OutputFiles == {NoStr, SomeStr(<<>>), SomeStr(<<"m", ".", "m", "p", "4">>)}

\* models.ProcessOptions
ProcessOptionsSet ==
    [keep_original : BOOLEAN,
     output_format : {<<"m", "p", "4">>, <<"m", "k", "v">>},
     quality_level : {NoInt, SomeInt(0), SomeInt(23)}]

\* What subprocess.run(command, check=True) does: exit status 0, a non-zero
\* exit status, or no executable to run.
FfmpegOutcomes == {"ok", "CalledProcessError", "OSError"}

\* _run_ffmpeg_command, lines 137-148: the error it raises ("none": it
\* returns). CalledProcessError becomes RuntimeError, anything else
\* propagates as it is.
RunFfmpegCommand(outcome) ==
    CASE outcome = "ok"                 -> "none"
      [] outcome = "CalledProcessError" -> "RuntimeError"
      [] outcome = "OSError"            -> "OSError"

ExceptExceptionMutantRuntimeErrorOnly(error) == error = "RuntimeError"

\* Lines 54 and 108: except Exception
ExceptException(error) == error \in {"RuntimeError", "OSError"}

NothingToMergeMutantNever(subtitle_files) == FALSE

\* Line 31: if not subtitle_files
NothingToMerge(subtitle_files) == subtitle_files = <<>>

\* Lines 37-39: "-i", sub for every subtitle file, from position i on.
RECURSIVE SubtitleArgs(_, _)
SubtitleArgs(subtitle_files, i) ==
    IF i > Len(subtitle_files) THEN <<>>
    ELSE <<"-i", subtitle_files[i]>> \o SubtitleArgs(subtitle_files, i + 1)

\* Lines 41-46.
MergeCommand(media_file, subtitle_files, output_file) ==
    <<"ffmpeg", "-i", media_file>> \o SubtitleArgs(subtitle_files, 1)
        \o <<"-c:v", "copy", "-c:a", "copy", "-c:s", "mov_text", output_file>>

\* The files after one run of the tool: a run that exits with status 0 has
\* written its output; a failed run may leave a partial output behind.
AfterFfmpeg(files, output_file, outcome, partial) ==
    IF outcome = "ok" \/ (outcome = "CalledProcessError" /\ partial)
    THEN files \cup {output_file}
    ELSE files

\* FileService.merge_subtitles, lines 31-56, on paths given as strings.
MergeSubtitles(media_file, subtitle_files, output_file, files, outcome, partial) ==
    IF NothingToMerge(subtitle_files)
    THEN [result |-> media_file, raised |-> FALSE, commands |-> <<>>,
          tool |-> "not run", files |-> files]
    ELSE LET error == RunFfmpegCommand(outcome) IN
         [result |-> IF error = "none" THEN output_file ELSE media_file,
          raised |-> error # "none" /\ ~ExceptException(error),
          commands |-> <<MergeCommand(media_file, subtitle_files, output_file)>>,
          tool |-> outcome,
          files |-> AfterFfmpeg(files, output_file, outcome, partial)]

\* UltraTubeExtractor.merge_subtitles, lines 135-139: the output file used.
MergeOutputFile(media_file, output_file) ==
    IF ~Truthy(output_file)
    THEN PathJoin(Dirname(media_file), SplitextRoot(Basename(media_file)) \o S_with_subs)
    ELSE output_file.s

DeleteOriginalMutantAlways(options) == TRUE

\* Line 102: if not options.keep_original
DeleteOriginal(options) == ~options.keep_original

\* Lines 79-82.
ProcessedFile(file_path, options) ==
    PathJoin(Dirname(file_path),
             SplitextRoot(Basename(file_path)) \o S_processed \o options.output_format)

\* Lines 85-95.
ProcessCommand(file_path, options) ==
    <<"ffmpeg", "-i", Str(file_path), "-c:v", "copy", "-c:a", "copy">>
        \o (IF options.quality_level.some /\ options.quality_level.n # 0
            THEN <<"-crf", NatStr(options.quality_level.n)>> ELSE <<>>)
        \o <<Str(ProcessedFile(file_path, options))>>

\* FileService.process_download, lines 73-110. removed: whether os.remove
\* succeeds; its OSError is caught like the tool's errors.
ProcessDownload(file_path, options, files, outcome, partial, removed) ==
    IF Str(file_path) \notin files
    THEN [result |-> Str(file_path), raised |-> FALSE, commands |-> <<>>,
          tool |-> "not run", files |-> files]
    ELSE LET output_file == Str(ProcessedFile(file_path, options))
             error == RunFfmpegCommand(outcome)
             written == AfterFfmpeg(files, output_file, outcome, partial)
             remove_error == IF error = "none" /\ DeleteOriginal(options) /\ ~removed
                             THEN "OSError" ELSE "none"
         IN  [result |-> IF error = "none" /\ remove_error = "none"
                         THEN output_file ELSE Str(file_path),
              raised |-> \/ error # "none" /\ ~ExceptException(error)
                         \/ remove_error # "none" /\ ~ExceptException(remove_error),
              commands |-> <<ProcessCommand(file_path, options)>>,
              tool |-> outcome,
              files |-> IF error = "none" /\ DeleteOriginal(options) /\ removed
                        THEN written \ {Str(file_path)}
                        ELSE written]

\* The record of a finished call.
FileDone(op, output_file, r) ==
    [op |-> op, media_file |-> fsv.media_file, subtitle_files |-> fsv.subtitle_files,
     output_file |-> fsv.output_file, options |-> fsv.options,
     used_output |-> output_file, pre_fs |-> fs,
     commands |-> r.commands, tool |-> r.tool, result |-> r.result, raised |-> r.raised]

\* One call of FileService.merge_subtitles with the output file given.
FileMergeSubtitles ==
    /\ fsv.op = "request"
    /\ fsv.output_file.some
    /\ \E outcome \in FfmpegOutcomes, partial \in BOOLEAN :
          LET output_file == Str(fsv.output_file.s)
              r == MergeSubtitles(Str(fsv.media_file), fsv.subtitle_files, output_file,
                                  fs, outcome, partial)
          IN  /\ fs' = r.files
              /\ fsv' = FileDone("merge_subtitles", output_file, r)

\* One call of UltraTubeExtractor.merge_subtitles, with or without an
\* output file.
ExtractorMergeSubtitles ==
    /\ fsv.op = "request"
    /\ \E outcome \in FfmpegOutcomes, partial \in BOOLEAN :
          LET output_file == Str(MergeOutputFile(fsv.media_file, fsv.output_file))
              r == MergeSubtitles(Str(fsv.media_file), fsv.subtitle_files, output_file,
                                  fs, outcome, partial)
          IN  /\ fs' = r.files
              /\ fsv' = FileDone("extractor_merge_subtitles", output_file, r)

\* One call of FileService.process_download.
FileProcessDownload ==
    /\ fsv.op = "request"
    /\ \E outcome \in FfmpegOutcomes, partial \in BOOLEAN, removed \in BOOLEAN :
          LET r == ProcessDownload(fsv.media_file, fsv.options, fs, outcome, partial, removed)
          IN  /\ fs' = r.files
              /\ fsv' = FileDone("process_download",
                                 Str(ProcessedFile(fsv.media_file, fsv.options)), r)

\* A request (media file, subtitle files, output file, process options) and
\* a filesystem on which the media file and the output files may exist.
InitFile ==
    /\ fsv \in [op : {"request"}, media_file : MediaFiles,
                 subtitle_files : SeqsUpTo(SubtitleFiles, MaxSubtitleFiles),
                 output_file : OutputFiles, options : ProcessOptionsSet]
    /\ fs \in SUBSET {Str(fsv.media_file), Str(ProcessedFile(fsv.media_file, fsv.options))}

NextFile ==
    \/ FileMergeSubtitles
          /\ UNCHANGED <<cacheVars, trackVars, selVars, dl, sanVars, subVars, restVars>>
    \/ ExtractorMergeSubtitles
          /\ UNCHANGED <<cacheVars, trackVars, selVars, dl, sanVars, subVars, restVars>>
    \/ FileProcessDownload
          /\ UNCHANGED <<cacheVars, trackVars, selVars, dl, sanVars, subVars, restVars>>

InitFileSpec ==
    /\ IdleCache /\ IdleTracks /\ IdleSel /\ dl = [op |-> NotRun]
    /\ IdleSan /\ IdleSubs /\ InitFile /\ IdleRest

SpecFile == InitFileSpec /\ [][NextFile]_vars

(* C14: FileService.merge_subtitles called with an empty subtitle list      *)
(* returns the original media path unchanged and never invokes the          *)
(* external transcoding tool, for every media path and output path, also    *)
(* through UltraTubeExtractor.merge_subtitles with or without an explicit   *)
(* output file.                                                             *)
MergeOps == {"merge_subtitles", "extractor_merge_subtitles"}

C14_EmptyListIsNoOp ==
    (fsv.op \in MergeOps /\ fsv.subtitle_files = <<>>) =>
        /\ fsv.result = Str(fsv.media_file)
        /\ fsv.commands = <<>>
        /\ fsv.tool = "not run"
        /\ ~fsv.raised
        /\ fs = fsv.pre_fs

\* The facade called without an output file and with no subtitle file, for
\* a media file that exists.
C14_Witness ==
    /\ fsv.op = "extractor_merge_subtitles"
    /\ fsv.subtitle_files = <<>>
    /\ fsv.output_file = NoStr
    /\ fsv.media_file = <<"o", "/", "a", ".", "m">>
    /\ "o/a.m" \in fs
    /\ fsv.result = "o/a.m"

(* C15: FileService.merge_subtitles called with a non-empty subtitle list   *)
(* invokes the external transcoding tool exactly once, with the media file  *)
(* as first input followed by every subtitle file as an input in list       *)
(* order; it returns output_file when the tool succeeds and the original    *)
(* media path when the tool fails, never raises to the caller, and never    *)
(* deletes the original media file.                                         *)
ExpectedMergeOutput ==
    IF fsv.op = "merge_subtitles" \/ fsv.output_file = SomeStr(<<"m", ".", "m", "p", "4">>)
    THEN Str(fsv.output_file.s)
    ELSE CASE fsv.media_file = <<"o", "/", "a", ".", "m">> -> "o/a_with_subs.mp4"
           [] fsv.media_file = <<"a", ".", "m">>           -> "a_with_subs.mp4"
           [] fsv.media_file = <<"o", "/", ".", "h">>      -> "o/.h_with_subs.mp4"
           [] fsv.media_file = <<"d", ".", "x", "/", "f">> -> "d.x/f_with_subs.mp4"

\* The arguments of a command that follow an "-i".
InputsOf(command) ==
    LET at == {i \in 1..(Len(command) - 1) : command[i] = "-i"} IN
    [k \in 1..Cardinality(at) |-> command[Kth(at, k) + 1]]

C15_NonEmptyListRunsToolOnce ==
    (fsv.op \in MergeOps /\ fsv.subtitle_files # <<>>) =>
        /\ Len(fsv.commands) = 1
        /\ Head(fsv.commands[1]) = "ffmpeg"
        /\ InputsOf(fsv.commands[1]) = <<Str(fsv.media_file)>> \o fsv.subtitle_files
        /\ fsv.commands[1][Len(fsv.commands[1])] = ExpectedMergeOutput
        /\ fsv.result = IF fsv.tool = "ok" THEN ExpectedMergeOutput ELSE Str(fsv.media_file)
        /\ ~fsv.raised
        /\ Str(fsv.media_file) \in fsv.pre_fs => Str(fsv.media_file) \in fs

\* Two subtitle files in an order of their own, a tool that cannot be
\* started: the media path comes back and the media file is still there.
C15_Witness ==
    /\ fsv.op = "merge_subtitles"
    /\ fsv.subtitle_files = <<"s2.vtt", "s1.vtt">>
    /\ fsv.tool = "OSError"
    /\ fsv.commands = <<<<"ffmpeg", "-i", "o/a.m", "-i", "s2.vtt", "-i", "s1.vtt",
                          "-c:v", "copy", "-c:a", "copy", "-c:s", "mov_text", "m.mp4">>>>
    /\ fsv.result = "o/a.m"
    /\ "o/a.m" \in fs

(* C16: in FileService.process_download the original file is deleted only  *)
(* after the external tool has succeeded and only when keep_original is     *)
(* false; when the tool fails, or the input file does not exist, the        *)
(* original file is left as it was and the original path is returned; so    *)
(* whenever the original existed before the call, the original or the       *)
(* processed output file exists after it.                                   *)
ExpectedProcessedFile ==
    (CASE fsv.media_file = <<"o", "/", "a", ".", "m">> -> "o/a"
       [] fsv.media_file = <<"a", ".", "m">>           -> "a"
       [] fsv.media_file = <<"o", "/", ".", "h">>      -> "o/.h"
       [] fsv.media_file = <<"d", ".", "x", "/", "f">> -> "d.x/f")
    \o "_processed." \o Str(fsv.options.output_format)

C16_OriginalDeletedOnlyAfterSuccess ==
    fsv.op = "process_download" =>
        LET original == Str(fsv.media_file) IN
        /\ (original \in fsv.pre_fs /\ original \notin fs) =>
              (fsv.tool = "ok" /\ ~fsv.options.keep_original)
        /\ fsv.tool # "ok" =>
              /\ original \in fs <=> original \in fsv.pre_fs
              /\ fsv.result = original
        /\ original \notin fsv.pre_fs => (fsv.tool = "not run" /\ fs = fsv.pre_fs)
        /\ original \in fsv.pre_fs => (original \in fs \/ ExpectedProcessedFile \in fs)
        /\ fsv.result = ExpectedProcessedFile => ExpectedProcessedFile \in fs
        /\ ~fsv.raised

\* The tool succeeded with keep_original false: the original is gone, the
\* processed file is there and is what the call returned.
C16_Witness ==
    /\ fsv.op = "process_download"
    /\ fsv.media_file = <<"o", "/", "a", ".", "m">>
    /\ ~fsv.options.keep_original
    /\ fsv.options.output_format = <<"m", "k", "v">>
    /\ fsv.tool = "ok"
    /\ "o/a.m" \in fsv.pre_fs
    /\ "o/a.m" \notin fs
    /\ "o/a_processed.mkv" \in fs
    /\ fsv.result = "o/a_processed.mkv"

\* The "-crf" argument of the command process_download ran, with its value:
\* <<>> when the command has none.
CrfArgs ==
    LET cmd == fsv.commands[1]
        at == {i \in 1..(Len(cmd) - 1) : cmd[i] = "-crf"}
    IN  IF at = {} THEN <<>> ELSE LET i == CHOOSE j \in at : TRUE IN <<cmd[i], cmd[i + 1]>>

\* C26: process_download passes the quality/CRF parameter to the transcoding
\* tool iff options.quality_level is not None, for every integer value of it
\* including 0, and the value passed is quality_level.
C26_CrfIffQualityLevelSet ==
    (fsv.op = "process_download" /\ fsv.tool # "not run") =>
        /\ CrfArgs # <<>> <=> fsv.options.quality_level.some
        /\ fsv.options.quality_level.some =>
              CrfArgs = <<"-crf", NatStr(fsv.options.quality_level.n)>>

-----------------------------------------------------------------------------
(* MetadataService.get_video_info called by two callers at once             *)

Callers == {"c1", "c2"}

ExtractsAfterMissMutantSingleFlight(in_flight) == ~in_flight

\* Lines 45-46: after a miss the extraction is made unconditionally; the
\* service keeps no lock and no record of extractions under way.
ExtractsAfterMiss(in_flight) == TRUE

\* Another caller is between its check and its store for the same URL.
InFlight(c) ==
    \E d \in Callers \ {c} :
        callers[d].url = callers[c].url /\ callers[d].pc \in {"extract", "store"}

\* Lines 37-43: the clock is read, the entry is tested, a hit returns.
CallerCheck(c) ==
    /\ callers[c].pc = "check"
    /\ LET url == callers[c].url
           current_time == now
           hit == CacheHit(video_info_cache, cache_timestamps, cache_ttl, url, current_time)
           seen == [current_time |-> current_time,
                    pre_cache |-> video_info_cache, pre_stamps |-> cache_timestamps]
       IN  callers' = [callers EXCEPT ![c] =
               IF hit
               THEN [pc |-> "done", url |-> url, seen |-> seen, extractions |-> 0,
                     extracted |-> [raised |-> FALSE, value |-> None],
                     result |-> CreateVideoInfo(video_info_cache[url])]
               ELSE IF ExtractsAfterMiss(InFlight(c))
               THEN [pc |-> "extract", url |-> url, seen |-> seen, extractions |-> 0,
                     extracted |-> [raised |-> FALSE, value |-> None],
                     result |-> None]
               ELSE [pc |-> "done", url |-> url, seen |-> seen, extractions |-> 0,
                     extracted |-> [raised |-> FALSE, value |-> None],
                     result |-> [kind |-> "joined"]]]
    /\ UNCHANGED cacheVars

\* Line 46: info = self._extract_video_info(url); an error leaves the call.
CallerExtract(c, outcome) ==
    /\ callers[c].pc = "extract"
    /\ TotalExtractions < MaxExtractions
    /\ LET url == callers[c].url
           ex == ExtractVideoInfo(url, outcome, TotalExtractions + 1)
       IN  /\ extract_calls' = [extract_calls EXCEPT ![url] = @ + 1]
           /\ callers' = [callers EXCEPT ![c] =
                  [@ EXCEPT !.pc = IF ex.raised THEN "done" ELSE "store",
                            !.extractions = 1, !.extracted = ex,
                            !.result = IF ex.raised THEN ex.value ELSE None]]
    /\ UNCHANGED <<video_info_cache, cache_timestamps, cache_ttl, now, lookup>>

\* Lines 47-52: both maps are written and the record is returned.
CallerStore(c) ==
    /\ callers[c].pc = "store"
    /\ LET url == callers[c].url
           ex == callers[c].extracted
       IN  /\ video_info_cache' = StoredInfo(video_info_cache, url, ex)
           /\ cache_timestamps' =
                  StoredTimestamp(cache_timestamps, url, ex, callers[c].seen.current_time)
           /\ callers' = [callers EXCEPT ![c] =
                  [@ EXCEPT !.pc = "done", !.result = LookupResult(ex)]]
    /\ UNCHANGED <<cache_ttl, now, extract_calls, lookup>>

CheckStep == \E c \in Callers : CallerCheck(c)
ExtractStep == \E c \in Callers, outcome \in ExtractOutcomes : CallerExtract(c, outcome)
StoreStep == \E c \in Callers : CallerStore(c)
ClockStep == Tick /\ UNCHANGED callers

\* Every caller is about to call get_video_info(url) on an empty cache.
InitCallers ==
    callers \in [Callers -> [pc : {"check"}, url : Urls]]

NextConcurrent ==
    \/ CheckStep
          /\ UNCHANGED <<trackVars, selVars, dlVars, sanVars, subVars, fileVars, session>>
    \/ ExtractStep
          /\ UNCHANGED <<trackVars, selVars, dlVars, sanVars, subVars, fileVars, session>>
    \/ StoreStep
          /\ UNCHANGED <<trackVars, selVars, dlVars, sanVars, subVars, fileVars, session>>
    \/ ClockStep
          /\ UNCHANGED <<trackVars, selVars, dlVars, sanVars, subVars, fileVars, session>>

InitConcurrentSpec ==
    /\ InitCache /\ IdleTracks /\ IdleSel /\ IdleDl /\ IdleSan /\ IdleSubs /\ IdleFile
    /\ InitCallers /\ IdleSession

SpecConcurrent == InitConcurrentSpec /\ [][NextConcurrent]_vars

(* C22: with two concurrent callers of get_video_info for one URL and no    *)
(* valid entry for it, both may miss the cache and both extract: a caller   *)
(* that saw no valid entry at its check makes an extraction of its own      *)
(* whatever the other caller is doing, so two extractions for one URL       *)
(* inside one ttl window are reachable.                                     *)
Checked(c) == callers[c].pc # "check"

FreshAtCheck(c) ==
    /\ callers[c].url \in DOMAIN callers[c].seen.pre_cache
    /\ callers[c].seen.current_time - callers[c].seen.pre_stamps[callers[c].url] < cache_ttl

C22_EveryMissExtracts ==
    /\ \A c \in Callers :
          (Checked(c) /\ ~FreshAtCheck(c)) =>
              /\ callers[c].pc \in {"extract", "store", "done"}
              /\ callers[c].pc \in {"store", "done"} => callers[c].extractions = 1
    /\ \A c \in Callers :
          (Checked(c) /\ FreshAtCheck(c)) =>
              (callers[c].pc = "done" /\ callers[c].extractions = 0)
    /\ \A u \in Urls :
          extract_calls[u] =
              Cardinality({c \in Callers : /\ Checked(c)
                                           /\ callers[c].url = u
                                           /\ callers[c].extractions = 1})

\* Both callers asked for u1 at the same clock value, both missed, both
\* extracted and both stored: two extractions in one ttl window.
C22_Witness ==
    /\ cache_ttl > 0
    /\ \A c \in Callers :
          /\ callers[c].pc = "done"
          /\ callers[c].url = "u1"
          /\ callers[c].extractions = 1
          /\ callers[c].result.kind = "VideoInfo"
    /\ callers["c1"].seen.current_time = callers["c2"].seen.current_time
    /\ extract_calls["u1"] = 2
    /\ now - callers["c1"].seen.current_time < cache_ttl

-----------------------------------------------------------------------------
(* get_audio_tracks and get_available_subtitles on one MetadataService, as  *)
(* the session calls them for a URL before a download                       *)

MaxCalls == 3         \* at most MaxCalls queries are followed

\* The URL the session asks about.
QueriedUrl == "u1"

\* How a query ended at the cache: answered from it, or by an extraction
\* that returned or raised.
QueryKind(l) ==
    IF l.extractions = 0 THEN "hit"
    ELSE IF l.extracted.raised THEN "raised" ELSE "returned"

\* The log of the queries made for the URL: when the first one started,
\* whether every one started less than cache_ttl after it, and how each
\* ended.
Logged(l) ==
    LET first == IF session.first_call.some THEN session.first_call.n ELSE l.current_time
    IN  [pc |-> "queries",
         first_call |-> SomeInt(first),
         in_window |-> session.in_window /\ l.current_time - first < cache_ttl,
         log |-> Append(session.log, QueryKind(l))]

\* display_audio_track_options, ultratube_main.py line 34.
QueryAudioTracks ==
    \E outcome \in ExtractOutcomes :
        /\ Len(session.log) < MaxCalls
        /\ GetAudioTracks(QueriedUrl, outcome)
        /\ session' = Logged(lookup')
        /\ UNCHANGED <<raw_subtitles, subtitles>>

\* display_subtitle_options, ultratube_main.py line 86.
QuerySubtitles ==
    \E outcome \in ExtractOutcomes :
        /\ Len(session.log) < MaxCalls
        /\ GetAvailableSubtitles(QueriedUrl, outcome)
        /\ session' = Logged(lookup')
        /\ UNCHANGED <<formats, audio_tracks>>

\* Time passes between two queries.
QueryClock == Tick /\ UNCHANGED <<trackVars, subVars, session>>

InitQueries ==
    /\ formats \in {<<>>, <<Format("a3", "none", "mp4a", "audio only", <<>>, <<"f", "r">>, "64")>>}
    /\ audio_tracks = [kind |-> NotRun]
    /\ raw_subtitles \in {EmptyDict, [c \in {"en"} |-> <<[name |-> NoStr, format_id |-> "ttml"]>>]}
    /\ subtitles = [kind |-> NotRun]
    /\ session = [pc |-> "queries", first_call |-> NoInt, in_window |-> TRUE, log |-> <<>>]

NextQueries ==
    \/ QueryAudioTracks /\ UNCHANGED <<selVars, dlVars, sanVars, fileVars, callers>>
    \/ QuerySubtitles /\ UNCHANGED <<selVars, dlVars, sanVars, fileVars, callers>>
    \/ QueryClock /\ UNCHANGED <<selVars, dlVars, sanVars, fileVars, callers>>

InitQueriesSpec ==
    /\ InitCache /\ InitQueries
    /\ IdleSel /\ IdleDl /\ IdleSan /\ IdleFile /\ IdleCallers

SpecQueries == InitQueriesSpec /\ [][NextQueries]_vars

\* The queries all started inside the ttl window of the first one.
AllInWindow == session.log # <<>> /\ session.in_window

-----------------------------------------------------------------------------
(* The session loop of ultratube_main.main: download, offer to merge the    *)
(* subtitles, offer another download                                        *)

\* The requests a session makes: the answers to its prompts held at their
\* defaults, the subtitle codes those chosen as primary and secondary.
SessionRequests ==
    {r \in [op : {"request"}, kind : {"audio", "video"}, quality : {Q_720p},
            options : DownloadOptionsSet, title : Titles] :
        /\ r.options.include_metadata /\ r.options.include_thumbnail
        /\ r.options.include_chapters
        /\ r.options.audio_format_id = NoStr}

MergeOfferedMutantSubtitlesOnly(media_file, subtitle_files) == subtitle_files # <<>>

\* ultratube_main.py line 372: if subtitle_files and media_file
MergeOffered(media_file, subtitle_files) ==
    subtitle_files # <<>> /\ media_file # NoPath

\* download_with_progress, lines 159-213: media_file and subtitle_files start
\* as None and []; an exception of the download leaves them so.
DownloadWithProgress(result) ==
    IF result.raised
    THEN [media_file |-> NoPath, subtitle_files |-> <<>>]
    ELSE [media_file |-> result.media, subtitle_files |-> result.subtitle_files]

\* The media path of the finished download, character by character.
SessionMediaFile(d) ==
    PathJoin(d.options.output_directory,
             SafeTitle(TitleOr(d.title, IF d.kind = "audio" THEN S_audio ELSE S_video))
                 \o (IF d.kind = "audio" THEN S_mp3 ELSE S_mp4))

\* Lines 313-372: the download of the iteration, then the test that decides
\* whether the merge is offered.
SessionDownload ==
    /\ session.pc = "download"
    /\ DownloadAudio \/ DownloadVideo
    /\ LET got == DownloadWithProgress(dl'.result) IN
       session' = [pc |-> IF MergeOffered(got.media_file, got.subtitle_files)
                          THEN "merge prompt" ELSE "another prompt",
                   media_file |-> got.media_file,
                   subtitle_files |-> got.subtitle_files,
                   merges |-> <<>>]

\* Lines 373-381: the answer to "Merge subtitles with media file?" and, on
\* yes, the merge.
SessionMerge ==
    /\ session.pc = "merge prompt"
    /\ \/ \E outcome \in FfmpegOutcomes, partial \in BOOLEAN :
             LET output_file == Str(MergeOutputFile(SessionMediaFile(dl), NoStr))
                 r == MergeSubtitles(session.media_file, session.subtitle_files,
                                     output_file, fs, outcome, partial)
             IN  /\ fs' = r.files
                 /\ session' = [session EXCEPT
                        !.pc = "another prompt",
                        !.merges = Append(@, [media_file |-> session.media_file,
                                              subtitle_files |-> session.subtitle_files,
                                              output_file |-> output_file,
                                              result |-> r.result])]
       \/ /\ fs' = fs
          /\ session' = [session EXCEPT !.pc = "another prompt"]
    /\ UNCHANGED dl

\* Lines 383-388: the answer to "Download another?". The next iteration is
\* followed with its own request and an empty download directory.
SessionAnother ==
    /\ session.pc = "another prompt"
    /\ \E yes \in BOOLEAN :
          IF yes
          THEN /\ dl' \in SessionRequests
               /\ fs' = {}
               /\ session' = [pc |-> "download", media_file |-> NoPath,
                              subtitle_files |-> <<>>, merges |-> <<>>]
          ELSE /\ session' = [session EXCEPT !.pc = "exited"]
               /\ UNCHANGED <<dl, fs>>

InitSession ==
    /\ dl \in SessionRequests
    /\ fs = {}
    /\ session = [pc |-> "download", media_file |-> NoPath,
                  subtitle_files |-> <<>>, merges |-> <<>>]

NextSession ==
    \/ SessionDownload
          /\ UNCHANGED <<cacheVars, trackVars, selVars, sanVars, subVars, fileVars, callers>>
    \/ SessionMerge
          /\ UNCHANGED <<cacheVars, trackVars, selVars, sanVars, subVars, fileVars, callers>>
    \/ SessionAnother
          /\ UNCHANGED <<cacheVars, trackVars, selVars, sanVars, subVars, fileVars, callers>>

InitSessionSpec ==
    /\ IdleCache /\ IdleTracks /\ IdleSel /\ InitSession
    /\ IdleSan /\ IdleSubs /\ IdleFile /\ IdleCallers

SpecSession == InitSessionSpec /\ [][NextSession]_vars

\* The download of the current iteration is over and failed: it raised or
\* returned no media path.
DownloadFailed ==
    dl.op = "done" /\ (dl.result.raised \/ dl.result.media = NoPath)

\* C29: in the ultratube_main session loop the subtitle merge is invoked
\* only when the preceding download returned both a media path and a
\* non-empty subtitle list (and is invoked on these); after a download that
\* raised or returned no media path no merge is invoked in that iteration and
\* the loop is at, or past, the "download another" prompt.
C29_MergeOnlyAfterMediaAndSubtitles ==
    /\ session.merges # <<>> =>
          /\ dl.op = "done" /\ ~dl.result.raised
          /\ dl.result.media # NoPath
          /\ dl.result.subtitle_files # <<>>
          /\ Len(session.merges) = 1
          /\ session.merges[1].media_file = dl.result.media
          /\ session.merges[1].subtitle_files = dl.result.subtitle_files
    /\ DownloadFailed =>
          /\ session.merges = <<>>
          /\ session.pc \in {"another prompt", "exited"}

\* A download that returned no media path but a subtitle file: no merge is
\* offered and the loop is at the "download another" prompt.
C29_Witness ==
    /\ dl.op = "done"
    /\ dl.primary = "none"
    /\ dl.result.media = NoPath
    /\ dl.result.subtitle_files = <<"out/video.en.vtt">>
    /\ session.pc = "another prompt"
    /\ session.merges = <<>>

=============================================================================
